---- MODULE Spec2Model ----
(***************************************************************************)
(* Registration backend: the multi-table create/update transactions of     *)
(* registrationControllers.js (createRegistration, updateRegistration) and *)
(* studentsController.js (updateStudent) running against a PostgreSQL      *)
(* connection pool.  Every awaited client.query is one step of a request;  *)
(* requests interleave at those steps.                                     *)
(***************************************************************************)
EXTENDS Integers, Sequences, FiniteSets, TLC

\* ---------------------------------------------------------------- bounds
MaxRequests == 2          \* requests that arrive in one behaviour

\* ------------------------------------------------------- program constants
PoolMax == 20             \* db.js: new Pool({ max: 20 })

NULL == "null"           \* null / undefined where strings are held
NoId == 0               \* null / undefined where ids are held
Requests == 1..MaxRequests
Conns == 1..PoolMax

\* ------------------------------------------------------------ SQL helpers
\* LOWER(x) on a string held as a sequence of characters.
LowerChar(ch) ==
  CASE ch = "A" -> "a" [] ch = "F" -> "f" [] ch = "T" -> "t"
    [] ch = "I" -> "i" [] ch = "M" -> "m" [] OTHER -> ch

LOWER(s) == [i \in 1..Len(s) |-> LowerChar(s[i])]

RECURSIVE TrimLeft(_)
TrimLeft(s) == IF s # <<>> /\ Head(s) = " " THEN TrimLeft(Tail(s)) ELSE s

RECURSIVE TrimRight(_)
TrimRight(s) ==
  IF s # <<>> /\ s[Len(s)] = " " THEN TrimRight(SubSeq(s, 1, Len(s) - 1)) ELSE s

\* TRIM(x): both ends.
TRIM(s) == TrimRight(TrimLeft(s))

\* ----------------------------------------------- static reference tables
\* bcrypt.hash(password, salt): the salt is kept beside the digest of salt
\* and password.
hashPassword(password, salt) == [salt |-> salt, digest |-> <<salt, password>>]

\* bcrypt.compare(password, hashedPassword)
comparePassword(password, hashedPassword) ==
  hashedPassword.digest = <<hashedPassword.salt, password>>

users == { [userid |-> 7, email |-> <<"A", "@", "m">>,
            password |-> hashPassword("pw", "s7"), roleid |-> 1] }

programs == { [programid |-> 1, programname |-> <<"F", "T">>],
              [programid |-> 2, programname |-> <<"A", "M">>] }

roomtypes == { [roomtypeid |-> 1, roomtype |-> <<"I">>],
               [roomtypeid |-> 2, roomtype |-> <<"T">>] }

paymentplan == { [paymentplanid |-> 1, plantype |-> <<"M">>],
                 [paymentplanid |-> 2, plantype |-> <<"A">>] }

\* Only curated (program, room) pairs are enrollable: (1,2) and (2,1) have no row.
enrollmentplans == { [enrollmentplanid |-> 11, programid |-> 1, roomtypeid |-> 1],
                     [enrollmentplanid |-> 12, programid |-> 2, roomtypeid |-> 2] }

\* SELECT userid FROM users WHERE LOWER(email) = LOWER($1)
SelectUser(email) == { u.userid : u \in { x \in users : LOWER(x.email) = LOWER(email) } }

\* SELECT programid FROM programs WHERE programid = $1
SelectProgramById(p) == { x.programid : x \in { y \in programs : y.programid = p } }

\* SELECT roomtypeid FROM roomtypes WHERE roomtypeid = $1
SelectRoomById(p) == { x.roomtypeid : x \in { y \in roomtypes : y.roomtypeid = p } }

\* SELECT paymentplanid FROM paymentplan WHERE paymentplanid = $1
SelectPaymentById(p) == { x.paymentplanid : x \in { y \in paymentplan : y.paymentplanid = p } }

\* SELECT programid FROM programs WHERE LOWER(programname) = LOWER(TRIM($1))
SelectProgramByName(n) ==
  { x.programid : x \in { y \in programs : LOWER(y.programname) = LOWER(TRIM(n)) } }

\* SELECT roomtypeid FROM roomtypes WHERE LOWER(roomtype) = LOWER(TRIM($1))
SelectRoomByName(n) ==
  { x.roomtypeid : x \in { y \in roomtypes : LOWER(y.roomtype) = LOWER(TRIM(n)) } }

\* SELECT paymentplanid FROM paymentplan WHERE LOWER(plantype) = LOWER(TRIM($1))
SelectPaymentByName(n) ==
  { x.paymentplanid : x \in { y \in paymentplan : LOWER(y.plantype) = LOWER(TRIM(n)) } }

\* An enrollment-plan lookup that ignores the room type.
SelectEnrollmentPlanAnyRoom(p, rt) ==
  { x.enrollmentplanid : x \in { y \in enrollmentplans : y.programid = p } }

\* SELECT enrollmentplanid FROM enrollmentplans WHERE programid = $1 AND roomtypeid = $2
SelectEnrollmentPlan(p, rt) ==
  { x.enrollmentplanid :
      x \in { y \in enrollmentplans : y.programid = p /\ y.roomtypeid = rt } }

\* ------------------------------------------------------- database tables
\* Column values taken from a request body are held as the id of that request
\* (field data; 0 = rows that existed at startup).
Tables == {"children", "guardians", "child_guardians", "medicalcontacts",
           "carefacilities", "registrations"}

\* At startup: child 1 was registered earlier and has its full record set;
\* child 2 is a legacy row without guardian mapping or registration.
InitialDb ==
  [ children |-> { [childid |-> 1, parentuserid |-> 7, data |-> 0],
                   [childid |-> 2, parentuserid |-> 7, data |-> 0] },
    guardians |-> { [guardianid |-> 1, data |-> 0] },
    child_guardians |-> { [childid |-> 1, guardianid |-> 1,
                           relationtype |-> 0, isprimary |-> TRUE] },
    medicalcontacts |-> { [childid |-> 1, data |-> 0, alternate |-> 0],
                          [childid |-> 2, data |-> 0, alternate |-> 0] },
    carefacilities |-> { [childid |-> 1, data |-> 0],
                         [childid |-> 2, data |-> 0] },
    registrations |-> { [registrationid |-> 1, childid |-> 1, enrollmentplanid |-> 12,
                         paymentplanid |-> 2, status |-> "Approved", amount |-> 5,
                         data |-> 0] } ]

\* One written statement of a transaction, applied to a database value.
Matches(row, where) == \A f \in DOMAIN where : row[f] = where[f]

Assign(row, set) == [f \in DOMAIN row |-> IF f \in DOMAIN set THEN set[f] ELSE row[f]]

Insert(table, row) == [op |-> "insert", table |-> table, row |-> row]

Update(table, set, where) == [op |-> "update", table |-> table, set |-> set, where |-> where]

\* An UPDATE that leaves a guardians row alone once an earlier update has
\* written it: the first write wins.
ApplyOpFirstWriteWins(d, o) ==
  IF o.op = "insert"
    THEN [d EXCEPT ![o.table] = @ \cup {o.row}]
    ELSE [d EXCEPT ![o.table] =
            { IF Matches(x, o.where) /\ (o.table = "guardians" => x.data = 0)
                THEN Assign(x, o.set) ELSE x : x \in @ }]

ApplyOp(d, o) ==
  IF o.op = "insert"
    THEN [d EXCEPT ![o.table] = @ \cup {o.row}]
    ELSE [d EXCEPT ![o.table] =
            { IF Matches(x, o.where) THEN Assign(x, o.set) ELSE x : x \in @ }]

RECURSIVE ApplyAll(_, _)
ApplyAll(d, log) == IF log = <<>> THEN d ELSE ApplyAll(ApplyOp(d, Head(log)), Tail(log))

VARIABLES
  db,        \* committed rows of every table
  seq,       \* the serial sequences behind childid, guardianid, registrationid
  clients,   \* the pool's connections: server-side transaction state of each
  idle,      \* the pool's idle connections, most recently released last
  req,       \* the requests: inputs, position in the handler, response
  before,    \* the committed rows when the latest request arrived
  read,      \* the latest GET: its parameters and the response it was given
  ui,        \* RegistrationComponent and the HTTP calls of its submission
  auth,      \* AuthenticationService, the router and the POST /api/login exchange
  cache,     \* ApiService's cached lookup observables and their GETs
  page,      \* StudentsComponent: the students, the search and the page
  form       \* ViewStudentsComponent: edit mode, controls and pending timers

\* The parts of the Angular application other than the registration form.
app == <<auth, cache, page, form>>

vars == <<db, seq, clients, idle, req, before, read, ui, auth, cache, page, form>>

\* ------------------------------------------- PostgreSQL session semantics
\* A connection is outside a transaction ("none"), inside one ("open", with
\* the statements written so far) or inside a failed one ("aborted": every
\* statement but ROLLBACK/COMMIT is refused and nothing of it can commit).
FreshClient == [txn |-> "none", log |-> <<>>]

\* What a statement of the transaction sees: committed rows plus its own writes.
View(c) == ApplyAll(db, clients[c].log)

\* A statement is answered without error.
Answers(c, ok) == ok /\ clients[c].txn # "aborted"

\* client.query(<statement writing ops>)
Exec(cl, ok, ops) ==
  IF ok /\ cl.txn # "aborted"
    THEN [cl EXCEPT !.log = @ \o ops]
    ELSE IF cl.txn = "none" THEN cl ELSE [txn |-> "aborted", log |-> <<>>]

\* client.query("BEGIN")
ExecBegin(cl, ok) ==
  IF ok /\ cl.txn # "aborted"
    THEN [cl EXCEPT !.txn = "open"]
    ELSE IF cl.txn = "none" THEN cl ELSE [txn |-> "aborted", log |-> <<>>]

\* client.query("ROLLBACK"): discards the transaction; a ROLLBACK that errors
\* leaves a transaction, if there is one, failed.
ExecRollback(cl, ok) ==
  IF ok THEN FreshClient
  ELSE IF cl.txn = "none" THEN cl ELSE [txn |-> "aborted", log |-> <<>>]

\* client.query("COMMIT"): the committed database and the session afterwards.
\* COMMIT of a failed transaction is answered as a rollback; a COMMIT that
\* errors commits nothing.
CommitDb(cl, ok) == IF ok /\ cl.txn = "open" THEN ApplyAll(db, cl.log) ELSE db

ExecCommit(cl, ok) == FreshClient

\* --------------------------------------------------- lookup resolution
\* rows[0] of a result
First(rows) == CHOOSE x \in rows : TRUE

Selection(rq) == rq.body.enrollmentProgramDetails

\* programRes.rows, roomRes.rows, planRes.rows, paymentRes.rows of a request
ProgramRes(rq) ==
  IF rq.kind = "createRegistration_v1"
    THEN SelectProgramByName(Selection(rq).programType)
    ELSE SelectProgramById(Selection(rq).programType)

RoomRes(rq) ==
  IF rq.kind = "createRegistration_v1"
    THEN SelectRoomByName(Selection(rq).roomType)
    ELSE SelectRoomById(Selection(rq).roomType)

PlanRes(rq) ==
  IF ProgramRes(rq) = {} \/ RoomRes(rq) = {} THEN {}
  ELSE SelectEnrollmentPlan(First(ProgramRes(rq)), First(RoomRes(rq)))

PaymentRes(rq) ==
  IF rq.kind = "createRegistration_v1"
    THEN SelectPaymentByName(Selection(rq).planType)
    ELSE SelectPaymentById(Selection(rq).planType)

\* ------------------------------------------------------------- requests
Creates == {"createRegistration", "createRegistration_v1"}
Updates == {"updateRegistration", "updateStudent"}

EmailInputs == { <<"a", "@", "M">>, <<"z">> }

\* enrollmentProgramDetails as the current handlers read it: ids.
IdSelections ==
  { [programType |-> 1, roomType |-> 1, planType |-> 1, status |-> NULL],
    [programType |-> 2, roomType |-> 2, planType |-> 2, status |-> NULL],
    [programType |-> 1, roomType |-> 2, planType |-> 1, status |-> NULL],
    [programType |-> 9, roomType |-> 1, planType |-> 1, status |-> NULL],
    [programType |-> 1, roomType |-> 9, planType |-> 1, status |-> NULL],
    [programType |-> 1, roomType |-> 1, planType |-> 9, status |-> NULL] }

\* enrollmentProgramDetails as the earlier createRegistration reads it: names.
NameSelections ==
  { [programType |-> <<" ", "f", "t", " ">>, roomType |-> <<"i">>,
     planType |-> <<"m", " ">>, status |-> NULL],
    [programType |-> <<"F", "T">>, roomType |-> <<"T">>,
     planType |-> <<"M">>, status |-> NULL],
    [programType |-> <<"F", " ", "T">>, roomType |-> <<"I">>,
     planType |-> <<"M">>, status |-> NULL],
    [programType |-> <<"A", "M">>, roomType |-> <<"t">>,
     planType |-> <<"X">>, status |-> NULL] }

UpdateSelections ==
  IdSelections \cup
  { [programType |-> 1, roomType |-> 1, planType |-> 1, status |-> "Waitlisted"] }

\* The value of an enrollmentProgramDetails the body does not hold.
NoSelection == [programType |-> NoId, roomType |-> NoId, planType |-> NoId, status |-> NULL]

Sections == {"childInfo", "parentGuardianInfo", "medicalInfo", "careFacilityInfo",
             "enrollmentProgramDetails"}

\* The section sets of the update bodies that are tried.
SectionSets ==
  { {"medicalInfo"}, {"careFacilityInfo"}, {"childInfo", "parentGuardianInfo"},
    {"parentGuardianInfo", "medicalInfo"}, {"enrollmentProgramDetails"},
    {"childInfo", "enrollmentProgramDetails"}, Sections }

\* req.body: the sections it holds, whether parentGuardianInfo.relationship
\* is set, the enrollment selection, the email.  An unknown email is tried
\* with one selection.
CreateBodies(kind) ==
  { b \in [email : EmailInputs, sections : {Sections}, relationship : {TRUE},
           enrollmentProgramDetails :
             IF kind = "createRegistration" THEN IdSelections ELSE NameSelections] :
      SelectUser(b.email) = {} => PlanRes([kind |-> kind, body |-> b]) # {} }

UpdateBodies(kind) ==
  { b \in [email : {<<>>}, sections : SectionSets, relationship : BOOLEAN,
           enrollmentProgramDetails : {NoSelection} \cup UpdateSelections] :
      /\ b.relationship <=> b.sections \in { {"childInfo", "parentGuardianInfo"}, Sections }
      /\ (b.enrollmentProgramDetails # NoSelection)
           <=> ("enrollmentProgramDetails" \in b.sections)
      /\ kind = "updateStudent" => b.enrollmentProgramDetails.programType \in {NoId, 2} }

\* req.params.childId of an update: an existing child, the next child a create
\* makes, or (updateStudent called without one) none.
ChildParams(kind) ==
  IF kind = "updateStudent" THEN {1, 2, 3, NoId} ELSE {1, 2, 3}

NoBody == [email |-> <<>>, sections |-> {}, relationship |-> FALSE,
           enrollmentProgramDetails |-> NoSelection]

NoResponse == [status |-> 0, error |-> NULL, childId |-> NoId]

NoRequest ==
  [ kind |-> NULL, pc |-> "new", body |-> NoBody, childId |-> NoId,
    client |-> NoId, userId |-> NoId, guardianId |-> NoId,
    err |-> NULL, response |-> NoResponse,
    began |-> FALSE, rollbackIssued |-> FALSE, committed |-> FALSE ]

\* No GET was made yet.
NoRead ==
  [ kind |-> NULL, childId |-> NoId, status |-> 0, error |-> NULL, message |-> NULL,
    hasTotalCount |-> FALSE, totalCount |-> 0, data |-> <<>> ]

\* RegistrationComponent before the form is submitted: isSubmitting,
\* errorMessage, successMessage; posts counts the POST /api/registrations calls
\* HttpClient has sent for the submission, kind and body are what it sends.
NoSubmission ==
  [ isSubmitting |-> FALSE, errorMessage |-> NULL, successMessage |-> NULL,
    posts |-> 0, kind |-> NULL, body |-> NoBody ]

\* No user: the null of currentUserSubject and of localStorage.getItem.
NoUser == [userid |-> NoId]

\* No POST /api/login was sent.
NoCredentials == [email |-> <<>>, password |-> ""]

\* No response to POST /api/login has arrived.
NoLoginResponse == [status |-> 0, success |-> FALSE, message |-> NULL, user |-> NoUser]

\* AuthenticationService of a browser without a stored user, on the login
\* page: isBrowser, localStorage's currentUser, currentUserSubject's value,
\* the credentials and the number of the POSTs of the login in flight, the
\* response to the latest POST, what the subscriber of login() was told,
\* the router's url, and the route and result of the latest canActivate.
NoLogin ==
  [ isBrowser |-> TRUE, storage |-> NoUser, currentUser |-> NoUser,
    credentials |-> NoCredentials, posts |-> 0, pc |-> "idle",
    response |-> NoLoginResponse, told |-> NULL,
    url |-> "/login", route |-> NULL, activated |-> FALSE, origin |-> "none" ]

\* ------------------------------------------------------ StudentsComponent
\* The page sizes the list is shown with; 10 is the component's own.
PageSizes == {1, 2, 10}

\* A student of response.data, as far as the search reads it.
Student(childFirst, childLast, guardianFirst, guardianLast) ==
  [ childInfo |-> [firstName |-> childFirst, lastName |-> childLast],
    parentGuardianInfo |-> [firstName |-> guardianFirst, lastName |-> guardianLast] ]

\* response.data of GET /api/students: no student, three, five.
StudentLists ==
  LET s1 == Student(<<"A">>, <<"T">>, <<"M">>, <<"I">>)
      s2 == Student(<<"F">>, <<"A">>, <<"T">>, <<"T">>)
      s3 == Student(<<"I">>, <<"I">>, <<"A">>, <<"M">>)
      s4 == Student(<<"T">>, <<"M">>, <<"F">>, <<"F">>)
      s5 == Student(<<"M">>, <<"M">>, <<"I">>, <<"T">>)
  IN { <<>>, <<s1, s2, s3>>, <<s1, s2, s3, s4, s5>> }

\* What is typed into the search box.
SearchTerms == { <<>>, <<" ">>, <<"a">>, <<"A">>, <<"t", " ", "m">>, <<"z">> }

\* String.prototype.includes
includes(s, term) ==
  \E i \in 0..(Len(s) - Len(term)) : SubSeq(s, i + 1, i + Len(term)) = term

\* Array.prototype.filter; keep is the set of the elements the callback
\* returns true for.
filter(s, keep) ==
  LET kept == { i \in 1..Len(s) : s[i] \in keep } IN
  [ k \in 1..Cardinality(kept) |->
      s[CHOOSE i \in kept : Cardinality({ j \in kept : j < i }) = k - 1] ]

\* Array.prototype.slice(start, end) for start, end >= 0
slice(s, start, end) ==
  LET last == IF end < Len(s) THEN end ELSE Len(s) IN
  IF start >= last THEN <<>> ELSE SubSeq(s, start + 1, last)

\* Math.ceil(a / b) for a >= 0, b > 0
ceil(a, b) == (a + b - 1) \div b

\* StudentsComponent as constructed.
NoPage ==
  [ students |-> <<>>, filteredStudents |-> <<>>, searchTerm |-> <<>>,
    currentPage |-> 1, itemsPerPage |-> 10, totalItems |-> 0,
    paginatedStudents |-> <<>>, isLoading |-> FALSE, error |-> "" ]

\* ------------------------------------------------- ViewStudentsComponent
\* Deferred callbacks that may wait in the timer queue at one time.
MaxTimers == 4

\* const keepDisabled = new Set([...]) of enableEditMode
keepDisabled ==
  { "enrollmentPlanId", "programType", "roomType", "planType", "enrollmentStatus",
    "paymentPlanId", "enrollmentAmount" }

\* The controls whose key starts with 'enrollment'.
EnrollmentPrefixed == { "enrollmentPlanId", "enrollmentStatus", "enrollmentAmount" }

\* Object.keys(this.studentForm.controls): the enrollment controls and one
\* control of each other section.
Controls ==
  keepDisabled \cup
  { "childFirstName", "parentRelationship", "medicalPhoneNumber",
    "careFacilityPhoneType" }

\* ViewStudentsComponent once initializeForm has built the form, every
\* control disabled, and the student is loaded: isEditMode, isSaving, the
\* enabled controls, the setTimeout callbacks not yet run (oldest first) and
\* whether the PATCH of saveChanges is in flight.
NoForm ==
  [ isEditMode |-> FALSE, isSaving |-> FALSE, enabled |-> {}, timers |-> <<>>,
    patch |-> FALSE ]

\* ----------------------------------------------------- ApiService lookups
\* Subscriptions made to the lookups in one behaviour.
MaxSubscribers == 4

\* programs$, roomTypes$, plans$
Lookups == {"programs", "roomTypes", "plans"}

\* A lookup observable that no getter has created yet: whether the field is
\* set; whether shareReplay is subscribed to its source, and which attempt of
\* retry the GET in flight is; the GETs sent and those that failed; the list
\* shareReplay holds for replay; the subscribers waiting, the subscriptions
\* made and what subscribers were given.
NoObservable ==
  [ created |-> FALSE, connected |-> FALSE, attempt |-> 0, gets |-> 0, failed |-> 0,
    buffer |-> NULL, waiting |-> 0, subscribers |-> 0, results |-> {} ]

NoCache == [l \in Lookups |-> NoObservable]

\* The rest of the application is not in use.
Closed ==
  /\ auth = NoLogin
  /\ cache = NoCache
  /\ page = NoPage
  /\ form = NoForm

Init ==
  /\ read = NoRead
  /\ ui = NoSubmission
  /\ Closed
  /\ db = InitialDb
  /\ seq = [childid |-> 3, guardianid |-> 2, registrationid |-> 2]
  /\ clients = <<>>
  /\ idle = <<>>
  /\ req = [r \in Requests |-> NoRequest]
  /\ before = InitialDb

\* ------------------------------------------------------------------ pool
\* A handler that forgets client.release().
ReleaseNothing(list, c) == list

\* finally { client.release() }: the connection goes back to the idle list
\* as it is -- the pool sends nothing to the server on release.
Release(list, c) == Append(list, c)

\* res.status(status).json({ error, childId }): the body's error, its childId.
Response(status, error, childId) == [status |-> status, error |-> error, childId |-> childId]

\* A handler ends: the response it sent (NoResponse: none), then finally.
Finish(r, response) ==
  /\ req' = [req EXCEPT ![r] = [@ EXCEPT !.pc = "done", !.response = response]]
  /\ idle' = Release(idle, req[r].client)

\* A statement of the try block threw: catch (err) { await client.query("ROLLBACK") ...
Catch(r, message) ==
  req' = [req EXCEPT ![r] = [@ EXCEPT !.pc = "catch", !.err = message,
                                      !.rollbackIssued = TRUE]]

Goto(r, pc) == req' = [req EXCEPT ![r] = [@ EXCEPT !.pc = pc]]

\* What stays on record of a request once the next one arrives: what it was
\* and what could be observed of it, not the locals of its handler.
Past(rq) ==
  IF rq.pc # "done" THEN rq
  ELSE [rq EXCEPT !.pc = "past", !.body = NoBody, !.userId = NoId,
                  !.guardianId = NoId, !.err = NULL]

\* What a handler's unhandled rejection leaves the caller with: nothing
\* (Express 4 does not look at the promise a handler returns) or the central
\* error handler's 500 { success: false, message } (Express 5 passes the
\* rejection on to it); the repository does not pin the version.
Unhandled == { NoResponse, Response(500, NULL, NoId) }

\* const client = await pool.connect() at the top of every handler, outside
\* the try block; when it resolves the handler sends its first statement
\* (updateStudent first returns 400 when it was given no childId).  others is
\* what is on record of the other requests.
Connect(r, kind, body, childId, ok, others) ==
  LET c == IF idle # <<>> THEN idle[Len(idle)] ELSE Len(clients) + 1
      arrived == [NoRequest EXCEPT !.kind = kind, !.body = body,
                                   !.childId = childId]
  IN
  IF ~ok \/ (idle = <<>> /\ Len(clients) >= PoolMax)
    THEN \* connect() rejects: the handler ends with an unhandled rejection
         /\ \E response \in Unhandled :
              req' = [others EXCEPT ![r] =
                       [arrived EXCEPT !.pc = "done", !.err = "connection error",
                                       !.response = response]]
         /\ before' = db
         /\ UNCHANGED <<db, seq, clients, idle>>
    ELSE /\ clients' = IF idle # <<>> THEN clients ELSE Append(clients, FreshClient)
         /\ IF kind = "updateStudent" /\ childId = NoId
              THEN /\ req' = [others EXCEPT ![r] =
                          [arrived EXCEPT !.client = c, !.pc = "done",
                             !.response =
                               Response(400, "childId is required", NoId)]]
                   /\ idle' = Release(IF idle # <<>>
                                         THEN SubSeq(idle, 1, Len(idle) - 1)
                                         ELSE idle, c)
              ELSE /\ req' = [others EXCEPT ![r] =
                          [arrived EXCEPT !.client = c, !.pc = "BEGIN",
                                          !.began = TRUE]]
                   /\ idle' = IF idle # <<>> THEN SubSeq(idle, 1, Len(idle) - 1)
                              ELSE idle
         /\ before' = db
         /\ UNCHANGED <<db, seq>>

\* A request reaches its handler once the handlers called before it have
\* returned.
Arrive(r) ==
  /\ req[r].pc = "new"
  /\ \A q \in Requests : q < r => req[q].pc # "new"
  /\ \A q \in Requests : req[q].pc \in {"new", "done", "past"}
  /\ \E kind \in Creates \cup Updates, ok \in BOOLEAN :
       \E body \in IF kind \in Creates THEN CreateBodies(kind) ELSE UpdateBodies(kind),
          childId \in IF kind \in Creates THEN {NoId} ELSE ChildParams(kind) :
         Connect(r, kind, body, childId, ok, [q \in Requests |-> Past(req[q])])
  /\ UNCHANGED <<read, ui, app>>

\* ------------------------------------------------- steps of every handler
SectionName == <<"childInfo", "parentGuardianInfo", "medicalInfo", "careFacilityInfo",
                 "enrollmentProgramDetails">>

SectionPc == <<"UPDATE children", "SELECT guardians", "UPDATE medicalcontacts",
               "UPDATE carefacilities", "SELECT programs">>

\* Update handlers that write the children row whether or not the body holds
\* childInfo.
RECURSIVE NextSectionChildAlways(_, _)
NextSectionChildAlways(rq, i) ==
  IF i > Len(SectionName) THEN "COMMIT"
  ELSE IF \/ i = 1
          \/ /\ SectionName[i] \in rq.body.sections
             /\ (SectionName[i] = "enrollmentProgramDetails" => rq.kind = "updateRegistration")
         THEN SectionPc[i]
         ELSE NextSectionChildAlways(rq, i + 1)

\* The statement an update handler sends next: that of the first section from
\* the i-th on that the body holds (if (childInfo) ..., if (parentGuardianInfo)
\* ...), else COMMIT.  updateStudent reads no enrollmentProgramDetails.
RECURSIVE NextSection(_, _)
NextSection(rq, i) ==
  IF i > Len(SectionName) THEN "COMMIT"
  ELSE IF /\ SectionName[i] \in rq.body.sections
          /\ (SectionName[i] = "enrollmentProgramDetails" => rq.kind = "updateRegistration")
         THEN SectionPc[i]
         ELSE NextSection(rq, i + 1)

\* await client.query("BEGIN")
Begin(r) ==
  /\ req[r].pc = "BEGIN"
  /\ \E ok \in BOOLEAN :
       LET c == req[r].client IN
       /\ clients' = [clients EXCEPT ![c] = ExecBegin(@, ok)]
       /\ IF Answers(c, ok)
            THEN Goto(r, IF req[r].kind \in Creates THEN "SELECT users"
                         ELSE NextSection(req[r], 1))
            ELSE Catch(r, "database error")
  /\ UNCHANGED <<db, seq, idle, before, read, ui, app>>

\* await client.query("COMMIT"); res.status(201 / 200).json({ success, childId })
Commit(r) ==
  /\ req[r].pc = "COMMIT"
  /\ \E ok \in BOOLEAN :
       LET c == req[r].client IN
       /\ db' = CommitDb(clients[c], ok)
       /\ clients' = [clients EXCEPT ![c] = ExecCommit(@, ok)]
       /\ IF ok
            THEN /\ req' = [req EXCEPT ![r] =
                        [@ EXCEPT !.pc = "done",
                           !.committed = (clients[c].txn = "open"),
                           !.response =
                             IF req[r].kind \in Creates
                               THEN Response(201, NULL, req[r].childId)
                               ELSE Response(200, NULL,
                                      IF req[r].kind = "updateStudent"
                                        THEN req[r].childId ELSE NoId)]]
                 /\ idle' = Release(idle, c)
            ELSE /\ Catch(r, "database error")
                 /\ UNCHANGED idle
  /\ UNCHANGED <<seq, before, read, ui, app>>

\* The validation path with its ROLLBACK left out.
ValidationWithoutRollback(r) ==
  /\ req[r].pc = "ROLLBACK"
  /\ Finish(r, Response(400, req[r].err, NoId))
  /\ UNCHANGED <<db, seq, before, clients, read, ui, app>>

\* A validation failed: await client.query("ROLLBACK"); return res.status(400).json(...)
ValidationRollback(r) ==
  /\ req[r].pc = "ROLLBACK"
  /\ \E ok \in BOOLEAN :
       LET c == req[r].client IN
       /\ clients' = [clients EXCEPT ![c] = ExecRollback(@, ok)]
       /\ IF ok
            THEN Finish(r, Response(400, req[r].err, NoId))
            ELSE Catch(r, "database error") /\ UNCHANGED idle
  /\ UNCHANGED <<db, seq, before, read, ui, app>>

\* The catch block with its ROLLBACK left out.
CatchWithoutRollback(r) ==
  /\ req[r].pc = "catch"
  /\ Finish(r, Response(500, req[r].err, NoId))
  /\ UNCHANGED <<db, seq, before, clients, read, ui, app>>

\* catch (err) { await client.query("ROLLBACK"); res.status(500).json({ error:
\* err.message }) } finally { client.release() }.  When this ROLLBACK throws,
\* the catch block is left before the response is sent and the handler's
\* promise rejects with the database's error.
CatchRollback(r) ==
  /\ req[r].pc = "catch"
  /\ \E ok \in BOOLEAN :
       LET c == req[r].client IN
       /\ clients' = [clients EXCEPT ![c] = ExecRollback(@, ok)]
       /\ IF ok THEN Finish(r, Response(500, req[r].err, NoId))
          ELSE /\ \E response \in Unhandled :
                    req' = [req EXCEPT ![r] =
                             [@ EXCEPT !.pc = "done", !.err = "database error",
                                       !.response = response]]
               /\ idle' = Release(idle, c)
  /\ UNCHANGED <<db, seq, before, read, ui, app>>

\* An UPDATE waits for the row locks held by the transactions of other
\* connections: the statement is not answered while another open transaction
\* has updated a committed row that it updates too.
Blocked(c, ops) ==
  \E c2 \in 1..Len(clients) :
    /\ c2 # c
    /\ clients[c2].txn = "open"
    /\ \E i \in 1..Len(clients[c2].log), j \in 1..Len(ops) :
         LET held == clients[c2].log[i]
             o == ops[j]
         IN /\ held.op = "update" /\ o.op = "update"
            /\ held.table = o.table
            /\ \E x \in db[o.table] : Matches(x, held.where) /\ Matches(x, o.where)

\* The step of a statement that only writes: on error go to catch.
Statement(r, pc, ops, next) ==
  /\ req[r].pc = pc
  /\ ~Blocked(req[r].client, ops)
  /\ \E ok \in BOOLEAN :
       LET c == req[r].client IN
       /\ clients' = [clients EXCEPT ![c] = Exec(@, ok, ops)]
       /\ IF Answers(c, ok) THEN Goto(r, next) ELSE Catch(r, "database error")
  /\ UNCHANGED <<db, seq, idle, before, read, ui, app>>

\* INSERT INTO registrations (...): the row takes the next registrationid of
\* the table's serial; then COMMIT is sent.
InsertRegistration(r, columns) ==
  /\ req[r].pc = "INSERT registrations"
  /\ \E ok \in BOOLEAN :
       LET c == req[r].client
           row == [registrationid |-> seq.registrationid] @@ columns
       IN
       /\ clients' = [clients EXCEPT ![c] = Exec(@, ok, <<Insert("registrations", row)>>)]
       /\ IF Answers(c, ok)
            THEN Goto(r, "COMMIT") /\ seq' = [seq EXCEPT !.registrationid = @ + 1]
            ELSE Catch(r, "database error") /\ UNCHANGED seq
  /\ UNCHANGED <<db, idle, before, read, ui, app>>

\* The step of a SELECT whose result decides a validation: on error go to
\* catch; when `invalid`, leave through `reject`; else send the next statement.
Lookup(r, pc, invalid, reject, next) ==
  /\ req[r].pc = pc
  /\ \E ok \in BOOLEAN :
       LET c == req[r].client IN
       /\ clients' = [clients EXCEPT ![c] = Exec(@, ok, <<>>)]
       /\ IF ~Answers(c, ok) THEN Catch(r, "database error")
          ELSE IF invalid THEN reject
          ELSE Goto(r, next)
  /\ UNCHANGED <<db, seq, idle, before, read, ui, app>>

\* await client.query("ROLLBACK"); return res.status(400).json({ error: message })
Reject(r, message) ==
  req' = [req EXCEPT ![r] = [@ EXCEPT !.pc = "ROLLBACK", !.err = message,
                                      !.rollbackIssued = TRUE]]

\* throw new Error(message), as the earlier createRegistration does
Throw(r, message) == Catch(r, message)

\* ------------------------------------------------------ createRegistration
\* 1. SELECT userid FROM users WHERE LOWER(email) = LOWER($1).  The current
\* handler goes on with userId = null when there is no such user; the earlier
\* one returns 400 "User not found" -- without a ROLLBACK.
createRegistration_users(r) ==
  /\ req[r].pc = "SELECT users"
  /\ \E ok \in BOOLEAN :
       LET c == req[r].client
           rows == SelectUser(req[r].body.email) IN
       /\ clients' = [clients EXCEPT ![c] = Exec(@, ok, <<>>)]
       /\ IF ~Answers(c, ok) THEN Catch(r, "database error") /\ UNCHANGED idle
          ELSE IF rows = {} /\ req[r].kind = "createRegistration_v1"
            THEN Finish(r, Response(400, "User not found", NoId))
          ELSE /\ req' = [req EXCEPT ![r] =
                      [@ EXCEPT !.pc = "INSERT children",
                                !.userId = IF rows = {} THEN NoId ELSE First(rows)]]
               /\ UNCHANGED idle
  /\ UNCHANGED <<db, seq, before, read, ui, app>>

\* 2. INSERT INTO children (..., parentuserid) ... RETURNING childid
createRegistration_children(r) ==
  /\ req[r].pc = "INSERT children"
  /\ \E ok \in BOOLEAN :
       LET c == req[r].client
           row == [childid |-> seq.childid, parentuserid |-> req[r].userId, data |-> r]
       IN
       /\ clients' = [clients EXCEPT ![c] = Exec(@, ok, <<Insert("children", row)>>)]
       /\ IF Answers(c, ok)
            THEN /\ req' = [req EXCEPT ![r] =
                        [@ EXCEPT !.pc = "INSERT guardians", !.childId = seq.childid]]
                 /\ seq' = [seq EXCEPT !.childid = @ + 1]
            ELSE Catch(r, "database error") /\ UNCHANGED seq
  /\ UNCHANGED <<db, idle, before, read, ui, app>>

\* The guardian insert followed by the medical insert, the mapping row left
\* for later.
createRegistration_guardians_then_medical(r) ==
  /\ req[r].pc = "INSERT guardians"
  /\ \E ok \in BOOLEAN :
       LET c == req[r].client
           row == [guardianid |-> seq.guardianid, data |-> r]
       IN
       /\ clients' = [clients EXCEPT ![c] = Exec(@, ok, <<Insert("guardians", row)>>)]
       /\ IF Answers(c, ok)
            THEN /\ req' = [req EXCEPT ![r] =
                        [@ EXCEPT !.pc = "INSERT medicalcontacts",
                                  !.guardianId = seq.guardianid]]
                 /\ seq' = [seq EXCEPT !.guardianid = @ + 1]
            ELSE Catch(r, "database error") /\ UNCHANGED seq
  /\ UNCHANGED <<db, idle, before, read, ui, app>>

\* 3. INSERT INTO guardians ... RETURNING guardianid
createRegistration_guardians(r) ==
  /\ req[r].pc = "INSERT guardians"
  /\ \E ok \in BOOLEAN :
       LET c == req[r].client
           row == [guardianid |-> seq.guardianid, data |-> r]
       IN
       /\ clients' = [clients EXCEPT ![c] = Exec(@, ok, <<Insert("guardians", row)>>)]
       /\ IF Answers(c, ok)
            THEN /\ req' = [req EXCEPT ![r] =
                        [@ EXCEPT !.pc = "INSERT child_guardians",
                                  !.guardianId = seq.guardianid]]
                 /\ seq' = [seq EXCEPT !.guardianid = @ + 1]
            ELSE Catch(r, "database error") /\ UNCHANGED seq
  /\ UNCHANGED <<db, idle, before, read, ui, app>>

\* The mapping row written with the guardian id generated last, by whichever
\* transaction, instead of the one this transaction's INSERT returned.
createRegistration_child_guardians_lastval(r) ==
  /\ req[r].kind \in Creates
  /\ Statement(r, "INSERT child_guardians",
            << Insert("child_guardians",
                 [childid |-> req[r].childId, guardianid |-> seq.guardianid - 1,
                  relationtype |-> r, isprimary |-> TRUE]) >>,
            "INSERT medicalcontacts")

\* INSERT INTO child_guardians (childid, guardianid, relationtype, isprimary)
\* VALUES ($1,$2,$3,true)
createRegistration_child_guardians(r) ==
  /\ req[r].kind \in Creates
  /\ Statement(r, "INSERT child_guardians",
            << Insert("child_guardians",
                 [childid |-> req[r].childId, guardianid |-> req[r].guardianId,
                  relationtype |-> r, isprimary |-> TRUE]) >>,
            "INSERT medicalcontacts")

\* 4. INSERT INTO medicalcontacts (childid, ...)
createRegistration_medicalcontacts(r) ==
  /\ req[r].kind \in Creates
  /\ Statement(r, "INSERT medicalcontacts",
            << Insert("medicalcontacts",
                      [childid |-> req[r].childId, data |-> r, alternate |-> r]) >>,
            "INSERT carefacilities")

\* 5. INSERT INTO carefacilities (childid, ...)
createRegistration_carefacilities(r) ==
  /\ req[r].kind \in Creates
  /\ Statement(r, "INSERT carefacilities",
            << Insert("carefacilities", [childid |-> req[r].childId, data |-> r]) >>,
            "SELECT programs")

\* 6. SELECT programid FROM programs ...
createRegistration_programs(r) ==
  /\ req[r].kind \in Creates
  /\ Statement(r, "SELECT programs", <<>>, "SELECT roomtypes")

\* SELECT roomtypeid FROM roomtypes ...;
\* if (!programRes.rows.length || !roomRes.rows.length) ...
createRegistration_roomtypes(r) ==
  /\ req[r].kind \in Creates
  /\ Lookup(r, "SELECT roomtypes",
            ProgramRes(req[r]) = {} \/ RoomRes(req[r]) = {},
            IF req[r].kind = "createRegistration"
              THEN Reject(r, "Invalid program or room type")
              ELSE Throw(r, "Invalid program or room type"),
            "SELECT enrollmentplans")

\* SELECT enrollmentplanid FROM enrollmentplans WHERE programid = $1 AND
\* roomtypeid = $2; if (!planRes.rows.length) ...
createRegistration_enrollmentplans(r) ==
  /\ req[r].kind \in Creates
  /\ Lookup(r, "SELECT enrollmentplans",
            PlanRes(req[r]) = {},
            IF req[r].kind = "createRegistration"
              THEN Reject(r, "No enrollment plan found for selected program & room")
              ELSE Throw(r, "No enrollment plan found for selected program & room"),
            "SELECT paymentplan")

\* SELECT paymentplanid FROM paymentplan ...; if (!paymentRes.rows.length) ...
createRegistration_paymentplan(r) ==
  /\ req[r].kind \in Creates
  /\ Lookup(r, "SELECT paymentplan",
            PaymentRes(req[r]) = {},
            IF req[r].kind = "createRegistration"
              THEN Reject(r, "Invalid payment plan type")
              ELSE Throw(r, "Invalid payment plan type"),
            "INSERT registrations")

\* The INSERT of the registration with the program id where the resolved
\* enrollmentplanid belongs.
createRegistration_registrations_programid(r) ==
  /\ req[r].kind \in Creates
  /\ InsertRegistration(r, [childid |-> req[r].childId,
                            enrollmentplanid |-> First(ProgramRes(req[r])),
                            paymentplanid |-> First(PaymentRes(req[r])),
                            status |-> "Pending Approval", amount |-> 0, data |-> r])

\* 7. INSERT INTO registrations (childid, enrollmentplanid, status,
\* paymentplanid, amount) VALUES ($1,$2,'Pending Approval',$3,0)
createRegistration_registrations(r) ==
  /\ req[r].kind \in Creates
  /\ InsertRegistration(r, [childid |-> req[r].childId,
                            enrollmentplanid |-> First(PlanRes(req[r])),
                            paymentplanid |-> First(PaymentRes(req[r])),
                            status |-> "Pending Approval", amount |-> 0, data |-> r])

\* ------------------------------------------ updateRegistration, updateStudent
\* if (childInfo) UPDATE children SET firstname=..., placeofbirth=... WHERE childid=$7
update_children(r) ==
  /\ req[r].kind \in Updates
  /\ Statement(r, "UPDATE children",
               << Update("children", [data |-> r], [childid |-> req[r].childId]) >>,
               NextSection(req[r], 2))

\* updateRegistration's guardian SELECT without its WHERE cg.childid = $1.
GuardiansOfAnyChild(d, childId) ==
  { cg.guardianid :
      cg \in { x \in d.child_guardians :
                 \E g \in d.guardians : g.guardianid = x.guardianid } }

\* guardianRes.rows of updateRegistration:
\* SELECT g.guardianid FROM guardians g INNER JOIN child_guardians cg
\*   ON g.guardianid = cg.guardianid WHERE cg.childid = $1 LIMIT 1
GuardiansOf(d, childId) ==
  { cg.guardianid :
      cg \in { x \in d.child_guardians :
                 /\ x.childid = childId
                 /\ \E g \in d.guardians : g.guardianid = x.guardianid } }

\* guardianRes.rows of updateStudent: ... WHERE cg.childid = $1 AND cg.isprimary = true
PrimaryGuardiansOf(d, childId) ==
  { cg.guardianid :
      cg \in { x \in d.child_guardians :
                 /\ x.childid = childId /\ x.isprimary
                 /\ \E g \in d.guardians : g.guardianid = x.guardianid } }

\* updateRegistration passing over the guardian section when the child has no
\* guardian, as updateStudent does.
updateRegistration_guardians_select_skip(r) ==
  /\ req[r].kind = "updateRegistration"
  /\ req[r].pc = "SELECT guardians"
  /\ \E ok \in BOOLEAN :
       LET c == req[r].client
           rows == GuardiansOf(View(c), req[r].childId) IN
       /\ clients' = [clients EXCEPT ![c] = Exec(@, ok, <<>>)]
       /\ IF ~Answers(c, ok) THEN Catch(r, "database error")
          ELSE IF rows = {} THEN Goto(r, NextSection(req[r], 3))
          ELSE \E g \in rows :
                 req' = [req EXCEPT ![r] =
                           [@ EXCEPT !.pc = "UPDATE guardians", !.guardianId = g]]
  /\ UNCHANGED <<db, seq, idle, before, read, ui, app>>

\* if (parentGuardianInfo): the guardian row is found through the mapping;
\* if (guardianRes.rows.length === 0) throw new Error("Guardian not found ...")
updateRegistration_guardians_select(r) ==
  /\ req[r].kind = "updateRegistration"
  /\ req[r].pc = "SELECT guardians"
  /\ \E ok \in BOOLEAN :
       LET c == req[r].client
           rows == GuardiansOf(View(c), req[r].childId) IN
       /\ clients' = [clients EXCEPT ![c] = Exec(@, ok, <<>>)]
       /\ IF ~Answers(c, ok) THEN Catch(r, "database error")
          ELSE IF rows = {} THEN Throw(r, "Guardian not found for this child")
          ELSE \E g \in rows :
                 req' = [req EXCEPT ![r] =
                           [@ EXCEPT !.pc = "UPDATE guardians", !.guardianId = g]]
  /\ UNCHANGED <<db, seq, idle, before, read, ui, app>>

\* updateStudent: if (guardianRes.rows.length > 0) { ...rows[0]... }, else the
\* guardian section is passed over.
updateStudent_guardians_select(r) ==
  /\ req[r].kind = "updateStudent"
  /\ req[r].pc = "SELECT guardians"
  /\ \E ok \in BOOLEAN :
       LET c == req[r].client
           rows == PrimaryGuardiansOf(View(c), req[r].childId) IN
       /\ clients' = [clients EXCEPT ![c] = Exec(@, ok, <<>>)]
       /\ IF ~Answers(c, ok) THEN Catch(r, "database error")
          ELSE IF rows = {} THEN Goto(r, NextSection(req[r], 3))
          ELSE \E g \in rows :
                 req' = [req EXCEPT ![r] =
                           [@ EXCEPT !.pc = "UPDATE guardians", !.guardianId = g]]
  /\ UNCHANGED <<db, seq, idle, before, read, ui, app>>

\* UPDATE guardians SET firstname=..., alternatenumber=... WHERE guardianid=$15;
\* updateRegistration then updates the mapping if (parentGuardianInfo.relationship)
update_guardians(r) ==
  /\ req[r].kind \in Updates
  /\ Statement(r, "UPDATE guardians",
               << Update("guardians", [data |-> r], [guardianid |-> req[r].guardianId]) >>,
               IF req[r].kind = "updateRegistration" /\ req[r].body.relationship
                 THEN "UPDATE child_guardians"
                 ELSE NextSection(req[r], 3))

\* updateRegistration writing the relationship as a new primary mapping row
\* instead of updating the one the child has.
updateRegistration_child_guardians_insert(r) ==
  /\ req[r].kind = "updateRegistration"
  /\ Statement(r, "UPDATE child_guardians",
               << Insert("child_guardians",
                         [childid |-> req[r].childId,
                          guardianid |-> req[r].guardianId,
                          relationtype |-> r, isprimary |-> TRUE]) >>,
               NextSection(req[r], 3))

\* UPDATE child_guardians SET relationtype=$1 WHERE childid=$2 AND guardianid=$3
updateRegistration_child_guardians(r) ==
  /\ req[r].kind = "updateRegistration"
  /\ Statement(r, "UPDATE child_guardians",
               << Update("child_guardians", [relationtype |-> r],
                         [childid |-> req[r].childId,
                          guardianid |-> req[r].guardianId]) >>,
               NextSection(req[r], 3))

\* if (medicalInfo) UPDATE medicalcontacts SET ... WHERE childid=$14;
\* updateStudent's SET list has no alternatephonetype and no alternatenumber.
update_medicalcontacts(r) ==
  /\ req[r].kind \in Updates
  /\ Statement(r, "UPDATE medicalcontacts",
               << Update("medicalcontacts",
                         IF req[r].kind = "updateRegistration"
                           THEN [data |-> r, alternate |-> r]
                           ELSE [data |-> r],
                         [childid |-> req[r].childId]) >>,
               NextSection(req[r], 4))

\* if (careFacilityInfo) UPDATE carefacilities SET ... WHERE childid=$10
update_carefacilities(r) ==
  /\ req[r].kind \in Updates
  /\ Statement(r, "UPDATE carefacilities",
               << Update("carefacilities", [data |-> r], [childid |-> req[r].childId]) >>,
               NextSection(req[r], 5))

\* if (enrollmentProgramDetails): SELECT programid FROM programs WHERE programid = $1
updateRegistration_programs(r) ==
  /\ req[r].kind = "updateRegistration"
  /\ Statement(r, "SELECT programs", <<>>, "SELECT roomtypes")

\* SELECT roomtypeid ...; if (!programRes.rows.length || !roomRes.rows.length)
\* { ROLLBACK; return 400 "Invalid program or room type" }
updateRegistration_roomtypes(r) ==
  /\ req[r].kind = "updateRegistration"
  /\ Lookup(r, "SELECT roomtypes",
            ProgramRes(req[r]) = {} \/ RoomRes(req[r]) = {},
            Reject(r, "Invalid program or room type"),
            "SELECT enrollmentplans")

\* SELECT enrollmentplanid FROM enrollmentplans ...; if (!planRes.rows.length) ...
updateRegistration_enrollmentplans(r) ==
  /\ req[r].kind = "updateRegistration"
  /\ Lookup(r, "SELECT enrollmentplans",
            PlanRes(req[r]) = {},
            Reject(r, "No enrollment plan found for selected program & room"),
            "SELECT paymentplan")

\* SELECT paymentplanid FROM paymentplan ...; if (!paymentRes.rows.length) ...
updateRegistration_paymentplan(r) ==
  /\ req[r].kind = "updateRegistration"
  /\ Lookup(r, "SELECT paymentplan",
            PaymentRes(req[r]) = {},
            Reject(r, "Invalid payment plan type"),
            "SELECT registrations")

\* The status of the body written as it came, absent or not.
StatusAsGiven(status) == status

\* status || "Pending Approval"
StatusOrDefault(status) == IF status = NULL THEN "Pending Approval" ELSE status

\* The enrollment step without its upsert: the registration is inserted
\* whether or not the child already has one.
updateRegistration_registrations_insert_always(r) ==
  /\ req[r].kind = "updateRegistration"
  /\ req[r].pc = "SELECT registrations"
  /\ \E ok \in BOOLEAN :
       LET c == req[r].client IN
       /\ clients' = [clients EXCEPT ![c] = Exec(@, ok, <<>>)]
       /\ IF ~Answers(c, ok) THEN Catch(r, "database error")
          ELSE Goto(r, "INSERT registrations")
  /\ UNCHANGED <<db, seq, idle, before, read, ui, app>>

\* SELECT registrationid FROM registrations WHERE childid = $1;
\* if (regRes.rows.length) UPDATE ... else INSERT ...
updateRegistration_registrations_select(r) ==
  /\ req[r].kind = "updateRegistration"
  /\ req[r].pc = "SELECT registrations"
  /\ \E ok \in BOOLEAN :
       LET c == req[r].client
           rows == { x \in View(c).registrations : x.childid = req[r].childId } IN
       /\ clients' = [clients EXCEPT ![c] = Exec(@, ok, <<>>)]
       /\ IF ~Answers(c, ok) THEN Catch(r, "database error")
          ELSE Goto(r, IF rows # {} THEN "UPDATE registrations"
                       ELSE "INSERT registrations")
  /\ UNCHANGED <<db, seq, idle, before, read, ui, app>>

\* UPDATE registrations SET enrollmentplanid=$1, paymentplanid=$2, status=$3
\* WHERE childid=$4
updateRegistration_registrations_update(r) ==
  /\ req[r].kind = "updateRegistration"
  /\ Statement(r, "UPDATE registrations",
               << Update("registrations",
                         [enrollmentplanid |-> First(PlanRes(req[r])),
                          paymentplanid |-> First(PaymentRes(req[r])),
                          status |-> StatusOrDefault(Selection(req[r]).status),
                          data |-> r],
                         [childid |-> req[r].childId]) >>,
               "COMMIT")

\* INSERT INTO registrations (childid, enrollmentplanid, status, paymentplanid,
\* amount) VALUES ($1,$2,$3,$4,0)
updateRegistration_registrations_insert(r) ==
  /\ req[r].kind = "updateRegistration"
  /\ InsertRegistration(r, [childid |-> req[r].childId,
                            enrollmentplanid |-> First(PlanRes(req[r])),
                            paymentplanid |-> First(PaymentRes(req[r])),
                            status |-> StatusOrDefault(Selection(req[r]).status),
                            amount |-> 0, data |-> r])

UpdateNext(r) ==
  \/ update_children(r)
  \/ updateRegistration_guardians_select(r)
  \/ updateStudent_guardians_select(r)
  \/ update_guardians(r)
  \/ updateRegistration_child_guardians(r)
  \/ update_medicalcontacts(r)
  \/ update_carefacilities(r)
  \/ updateRegistration_programs(r)
  \/ updateRegistration_roomtypes(r)
  \/ updateRegistration_enrollmentplans(r)
  \/ updateRegistration_paymentplan(r)
  \/ updateRegistration_registrations_select(r)
  \/ updateRegistration_registrations_update(r)
  \/ updateRegistration_registrations_insert(r)

CreateNext(r) ==
  \/ createRegistration_users(r)
  \/ createRegistration_children(r)
  \/ createRegistration_guardians(r)
  \/ createRegistration_child_guardians(r)
  \/ createRegistration_medicalcontacts(r)
  \/ createRegistration_carefacilities(r)
  \/ createRegistration_programs(r)
  \/ createRegistration_roomtypes(r)
  \/ createRegistration_enrollmentplans(r)
  \/ createRegistration_paymentplan(r)
  \/ createRegistration_registrations(r)

\* ------------------------------------------------------------ read side
\* A column that is NULL, among the columns held as request ids.
SqlNull == -1

\* The all-NULL row a LEFT JOIN supplies when no row of the table matches.
NullLink == [childid |-> NoId, guardianid |-> NoId, relationtype |-> SqlNull,
             isprimary |-> FALSE]

NullGuardian == [guardianid |-> NoId, data |-> SqlNull]

NullMedical == [childid |-> NoId, data |-> SqlNull, alternate |-> SqlNull]

NullCare == [childid |-> NoId, data |-> SqlNull]

NullRegistration ==
  [ registrationid |-> NoId, childid |-> NoId, enrollmentplanid |-> NoId,
    paymentplanid |-> NoId, status |-> NULL, amount |-> SqlNull, data |-> SqlNull ]

LeftJoin(rows, nullRow) == IF rows = {} THEN {nullRow} ELSE rows

\* FROM children c
\*   LEFT JOIN child_guardians cg ON c.childid = cg.childid AND cg.isprimary = true
\*   LEFT JOIN guardians g ON cg.guardianid = g.guardianid
\*   LEFT JOIN medicalcontacts m ON c.childid = m.childid
\*   LEFT JOIN carefacilities cf ON c.childid = cf.childid
\*   LEFT JOIN registrations r ON c.childid = r.childid
\* for the children rows cs; one joined row per combination of matches.
JoinRows(d, cs) ==
  UNION { UNION {
    { [c |-> c, cg |-> cg, g |-> g, m |-> m, cf |-> cf, r |-> reg] :
        g \in LeftJoin({ x \in d.guardians :
                           cg # NullLink /\ x.guardianid = cg.guardianid },
                       NullGuardian),
        m \in LeftJoin({ x \in d.medicalcontacts : x.childid = c.childid }, NullMedical),
        cf \in LeftJoin({ x \in d.carefacilities : x.childid = c.childid }, NullCare),
        reg \in LeftJoin({ x \in d.registrations : x.childid = c.childid },
                         NullRegistration) } :
      cg \in LeftJoin({ x \in d.child_guardians :
                          x.childid = c.childid /\ x.isprimary }, NullLink) } :
    c \in cs }

\* A JSON value that is a number in one body and a string in another.
JsonNumber(n) == [type |-> "number", number |-> n, string |-> <<>>]

JsonString(str) == [type |-> "string", number |-> 0, string |-> str]

JsonNull == [type |-> "null", number |-> 0, string |-> <<>>]

\* p.programname, rt.roomtype, pln.plantype of a joined row:
\*   LEFT JOIN enrollmentplans ep ON r.enrollmentplanid = ep.enrollmentplanid
\*   LEFT JOIN programs p ON ep.programid = p.programid
\*   LEFT JOIN roomtypes rt ON ep.roomtypeid = rt.roomtypeid
\*   LEFT JOIN paymentplan pln ON r.paymentplanid = pln.paymentplanid
ProgramNameOf(reg) ==
  LET names == { p.programname : p \in { x \in programs :
                   \E ep \in enrollmentplans :
                     /\ ep.enrollmentplanid = reg.enrollmentplanid
                     /\ ep.programid = x.programid } }
  IN IF names = {} THEN JsonNull ELSE JsonString(First(names))

RoomTypeOf(reg) ==
  LET names == { rt.roomtype : rt \in { x \in roomtypes :
                   \E ep \in enrollmentplans :
                     /\ ep.enrollmentplanid = reg.enrollmentplanid
                     /\ ep.roomtypeid = x.roomtypeid } }
  IN IF names = {} THEN JsonNull ELSE JsonString(First(names))

PlanTypeOf(reg) ==
  LET names == { pln.plantype : pln \in { x \in paymentplan :
                   x.paymentplanid = reg.paymentplanid } }
  IN IF names = {} THEN JsonNull ELSE JsonString(First(names))

\* The fields of the sections, as the handlers read and return them; a field
\* taken from a column that holds a request id is worth that id.
ChildFields == {"firstName", "middleName", "lastName", "gender", "dateOfBirth",
                "placeOfBirth"}

GuardianFields == {"firstName", "middleName", "lastName", "email", "address1",
                   "address2", "city", "state", "country", "zipCode"}

PhoneFields == {"phoneType", "phoneNumber"}

AlternatePhoneFields == {"alternatePhoneType", "alternatePhoneNumber"}

MedicalFields == {"physicianFirstName", "physicianMiddleName", "physicianLastName",
                  "address1", "address2", "city", "state", "country", "zipCode"}

CareFields == {"emergencyContactName", "emergencyPhoneNumber", "address1",
               "address2", "city", "state", "country", "zipCode"}

\* const student = { childInfo: {...}, parentGuardianInfo: {...}, medicalInfo:
\* {...}, careFacilityInfo: {...}, enrollmentProgramDetails: {...} } of
\* getStudentById and getAllStudents (country codes and the medicalcontactid
\* and facilityid keys are left out).
StudentOf(row) ==
  [ childInfo |->
      ("childId" :> row.c.childid) @@ [f \in ChildFields |-> row.c.data],
    parentGuardianInfo |->
      ("guardianId" :> row.g.guardianid) @@
      ("relationship" :> row.cg.relationtype) @@
      [f \in GuardianFields \cup PhoneFields \cup AlternatePhoneFields |-> row.g.data],
    medicalInfo |->
      [f \in MedicalFields \cup PhoneFields \cup {"physicianName"} |-> row.m.data],
    careFacilityInfo |->
      [f \in CareFields \cup {"phoneType"} |-> row.cf.data],
    enrollmentProgramDetails |->
      [ registrationId |-> row.r.registrationid,
        enrollmentPlanId |-> row.r.enrollmentplanid,
        status |-> row.r.status,
        paymentPlanId |-> row.r.paymentplanid,
        amount |-> row.r.amount,
        programType |-> ProgramNameOf(row.r),
        roomType |-> RoomTypeOf(row.r),
        planType |-> PlanTypeOf(row.r) ] ]

\* const student = {...} of getRegistrationByChildId: no phone, no
\* relationship, no careFacilityInfo.phoneType, no enrollmentProgramDetails;
\* the medical alternate phone is there.
RegistrationOf(row) ==
  [ childInfo |->
      ("childId" :> row.c.childid) @@ [f \in ChildFields |-> row.c.data],
    parentGuardianInfo |->
      ("guardianId" :> row.g.guardianid) @@ [f \in GuardianFields |-> row.g.data],
    medicalInfo |->
      [f \in MedicalFields \cup PhoneFields \cup {"physicianName"} |-> row.m.data] @@
      [f \in AlternatePhoneFields |-> row.m.alternate],
    careFacilityInfo |-> [f \in CareFields |-> row.cf.data] ]

\* res.json(result.rows[0]) of the earlier getRegistrationByChildId: the flat
\* row of SELECT * FROM children c LEFT JOIN medicalcontacts m ... LEFT JOIN
\* carefacilities cf ...
FlatRowOf(row) == [row |-> [c |-> row.c, m |-> row.m, cf |-> row.cf]]

\* The orders in which a query with ORDER BY c.childid DESC can return rows.
RECURSIVE RowOrders(_)
RowOrders(rows) ==
  IF rows = {} THEN { <<>> }
  ELSE LET first == { x \in rows : \A y \in rows : x.c.childid >= y.c.childid }
       IN UNION { { <<x>> \o rest : rest \in RowOrders(rows \ {x}) } : x \in first }

\* result.rows.forEach((row) => { if (!studentMap[childId]) { studentMap[childId]
\* = {...}; students.push(studentMap[childId]) } }); studentMap is held as the
\* set of its keys.
RECURSIVE GroupStudents(_, _, _)
GroupStudents(rows, studentMap, students) ==
  IF rows = <<>> THEN students
  ELSE LET row == Head(rows) IN
       IF row.c.childid \in studentMap
         THEN GroupStudents(Tail(rows), studentMap, students)
         ELSE GroupStudents(Tail(rows), studentMap \cup {row.c.childid},
                            Append(students, StudentOf(row)))

\* A step of one of the handlers.
HandlerNext(r) ==
  \/ Begin(r)
  \/ CreateNext(r)
  \/ UpdateNext(r)
  \/ Commit(r)
  \/ ValidationRollback(r)
  \/ CatchRollback(r)

Next == \E r \in Requests : Arrive(r) \/ HandlerNext(r)

Spec == Init /\ [][Next]_vars

\* No handler is between two of its statements.
Quiescent == \A q \in Requests : req[q].pc \in {"new", "done", "past"}

\* A GET is made when no handler is between two of its statements, one GET of
\* each history of writes.
Callable == Quiescent /\ read = NoRead

\* req.params.childId of a GET.
ReadParams == {1, 2, 3}

\* await pool.query(...): the pool lends its most recently released idle
\* connection, or a new one, for the one statement and takes it back.
PoolClient == IF idle # <<>> THEN idle[Len(idle)] ELSE Len(clients) + 1

\* The statement of pool.query ran and returned rows.
PoolAnswers(ok) ==
  /\ ok
  /\ idle # <<>> \/ Len(clients) < PoolMax
  /\ idle # <<>> => clients[PoolClient].txn # "aborted"

\* The rows the statement of pool.query reads from.
PoolView == IF idle # <<>> THEN View(PoolClient) ELSE db

\* What pool.query leaves of the pool.
PoolQuery(ok) ==
  IF idle # <<>>
    THEN /\ clients' = [clients EXCEPT ![PoolClient] = Exec(@, ok, <<>>)]
         /\ UNCHANGED idle
    ELSE IF Len(clients) < PoolMax
      THEN /\ clients' = Append(clients, FreshClient)
           /\ idle' = Release(idle, PoolClient)
      ELSE UNCHANGED <<clients, idle>>

\* res.status(status).json({ error, message, totalCount, data }) of a GET.
Answer(kind, childId, status, error, message, data) ==
  [ kind |-> kind, childId |-> childId, status |-> status, error |-> error,
    message |-> message, hasTotalCount |-> FALSE, totalCount |-> 0, data |-> data ]

\* GET /api/students/:childId
getStudentById ==
  /\ Callable
  /\ \E childId \in ReadParams, ok \in BOOLEAN :
       LET rows == JoinRows(PoolView, { c \in PoolView.children : c.childid = childId })
           kind == "getStudentById"
       IN
       /\ PoolQuery(ok)
       /\ IF ~PoolAnswers(ok)
            THEN read' = Answer(kind, childId, 500, "database error",
                                "Failed to fetch student", <<>>)
          ELSE IF rows = {}
            THEN read' = Answer(kind, childId, 404, NULL, "Student not found", <<>>)
          ELSE \E row \in rows :
                 read' = Answer(kind, childId, 200, NULL,
                                "Student retrieved successfully", <<StudentOf(row)>>)
  /\ UNCHANGED <<db, seq, req, before, ui, app>>

\* GET /api/registrations/:childId
getRegistrationByChildId ==
  /\ Callable
  /\ \E childId \in ReadParams, ok \in BOOLEAN :
       LET rows == JoinRows(PoolView, { c \in PoolView.children : c.childid = childId })
           kind == "getRegistrationByChildId"
       IN
       /\ PoolQuery(ok)
       /\ IF ~PoolAnswers(ok)
            THEN read' = Answer(kind, childId, 500, "database error", NULL, <<>>)
          ELSE IF rows = {}
            THEN read' = Answer(kind, childId, 404, "Registration not found", NULL, <<>>)
          ELSE \E row \in rows :
                 read' = Answer(kind, childId, 200, NULL, NULL, <<RegistrationOf(row)>>)
  /\ UNCHANGED <<db, seq, req, before, ui, app>>

\* GET /api/registrations/:childId as the earlier controller handles it: no
\* try block, no check of result.rows.length; res.json(undefined) is a 200
\* without a body.
getRegistrationByChildId_v1 ==
  /\ Callable
  /\ \E childId \in ReadParams, ok \in BOOLEAN :
       LET rows == JoinRows(PoolView, { c \in PoolView.children : c.childid = childId })
           kind == "getRegistrationByChildId_v1"
       IN
       /\ PoolQuery(ok)
       /\ IF ~PoolAnswers(ok)
            THEN \E response \in Unhandled :
                   read' = Answer(kind, childId, response.status, NULL,
                                  IF response.status = 500
                                    THEN "Internal server error" ELSE NULL, <<>>)
          ELSE IF rows = {}
            THEN read' = Answer(kind, childId, 200, NULL, NULL, <<>>)
          ELSE \E row \in rows :
                 read' = Answer(kind, childId, 200, NULL, NULL, <<FlatRowOf(row)>>)
  /\ UNCHANGED <<db, seq, req, before, ui, app>>

\* GET /api/students
getAllStudents ==
  /\ Callable
  /\ \E ok \in BOOLEAN :
       LET rows == JoinRows(PoolView, PoolView.children)
           kind == "getAllStudents"
       IN
       /\ PoolQuery(ok)
       /\ IF ~PoolAnswers(ok)
            THEN read' = Answer(kind, NoId, 500, "database error",
                                "Failed to fetch students", <<>>)
          ELSE IF rows = {}
            THEN read' = Answer(kind, NoId, 200, NULL, "No students found", <<>>)
          ELSE \E result \in RowOrders(rows) :
                 LET students == GroupStudents(result, {}, <<>>) IN
                 read' = [Answer(kind, NoId, 200, NULL,
                                 "Successfully retrieved", students)
                            EXCEPT !.hasTotalCount = TRUE,
                                   !.totalCount = Len(students)]
  /\ UNCHANGED <<db, seq, req, before, ui, app>>

\* A database that holds no registration yet.
EmptyDb == [t \in Tables |-> {}]

ReadInit ==
  /\ read = NoRead
  /\ ui = NoSubmission
  /\ Closed
  /\ db \in {InitialDb, EmptyDb}
  /\ seq = IF db = EmptyDb
             THEN [childid |-> 1, guardianid |-> 1, registrationid |-> 1]
             ELSE [childid |-> 3, guardianid |-> 2, registrationid |-> 2]
  /\ clients = <<>>
  /\ idle = <<>>
  /\ req = [r \in Requests |-> NoRequest]
  /\ before = db

\* The bodies of the writes that are tried before a GET: registrations of a
\* known user whose selection resolves, and updates of the guardian section,
\* of the enrollment section (to a plan that exists, to a program that does
\* not) or of every section.
ReadBodies(kind) ==
  IF kind \in Creates
    THEN { b \in CreateBodies(kind) :
             LET rq == [kind |-> kind, body |-> b] IN
             /\ SelectUser(b.email) # {}
             /\ PlanRes(rq) # {} /\ PaymentRes(rq) # {}
             /\ b.enrollmentProgramDetails.programType =
                  (IF kind = "createRegistration" THEN 1 ELSE <<"F", "T">>) }
    ELSE { b \in [email : {<<>>},
                  sections : { {"parentGuardianInfo"}, {"enrollmentProgramDetails"},
                               Sections },
                  relationship : BOOLEAN,
                  enrollmentProgramDetails :
                    {NoSelection,
                     [programType |-> 2, roomType |-> 2, planType |-> 2,
                      status |-> NULL],
                     [programType |-> 9, roomType |-> 1, planType |-> 1,
                      status |-> NULL]}] :
             /\ b.relationship <=> b.sections = Sections
             /\ (b.enrollmentProgramDetails # NoSelection)
                  <=> ("enrollmentProgramDetails" \in b.sections) }

\* A write reaches its handler once the handlers called before it have
\* returned; the GETs are made once the writes are over.
ReadArrive(r) ==
  /\ read = NoRead
  /\ req[r].pc = "new"
  /\ \A q \in Requests : q < r => req[q].pc # "new"
  /\ Quiescent
  /\ \E kind \in Creates \cup Updates, ok \in BOOLEAN :
       \E body \in ReadBodies(kind),
          childId \in IF kind \in Creates THEN {NoId} ELSE ReadParams \ {1} :
         Connect(r, kind, body, childId, ok, [q \in Requests |-> Past(req[q])])
  /\ UNCHANGED <<read, ui, app>>

ReadWrite == \E r \in Requests : ReadArrive(r) \/ HandlerNext(r)

ReadNext ==
  \/ ReadWrite
  \/ getStudentById
  \/ getRegistrationByChildId
  \/ getRegistrationByChildId_v1
  \/ getAllStudents

ReadSpec == ReadInit /\ [][ReadNext]_vars

\* ================================================================ claims
Finished(r) == req[r].pc \in {"done", "past"}

InFlight(r) == req[r].pc \notin {"new", "done", "past"}

\* d holds a row whose column values came from the body of request r.
Written(d, r) ==
  \/ \E x \in d.children : x.data = r
  \/ \E x \in d.guardians : x.data = r
  \/ \E x \in d.child_guardians : x.relationtype = r
  \/ \E x \in d.medicalcontacts : x.data = r
  \/ \E x \in d.carefacilities : x.data = r
  \/ \E x \in d.registrations : x.data = r

\* C1 -- create atomicity: once a createRegistration call has ended in any way
\* but its 201, no committed row of children, guardians, child_guardians,
\* medicalcontacts, carefacilities or registrations was written by it -- then
\* or at any later time.
C1_CreateAtomicity ==
  \A r \in Requests :
    (req[r].kind \in Creates /\ Finished(r) /\ req[r].response.status # 201)
      => ~Written(db, r)

\* A createRegistration failed after its child insert had been answered.
C1_Witness ==
  \E r \in Requests :
    /\ req[r].kind \in Creates /\ req[r].pc = "done"
    /\ req[r].response.status = 500 /\ req[r].childId # NoId

\* C2 -- update atomicity: an updateRegistration / updateStudent call that
\* ended in any way but its 200 leaves the committed rows exactly as they were
\* when it arrived, and no row written by it is committed later either.
C2_UpdateAtomicity ==
  \A r \in Requests :
    (req[r].kind \in Updates /\ Finished(r) /\ req[r].response.status # 200)
      => /\ ~Written(db, r)
         /\ req[r].pc = "done" => db = before

\* An updateRegistration whose enrollment validation failed after its
\* UPDATE children had been executed.
C2_Witness ==
  \E r \in Requests :
    /\ req[r].kind = "updateRegistration" /\ req[r].pc = "done"
    /\ req[r].response.status = 400
    /\ "childInfo" \in req[r].body.sections
    /\ \E x \in db.children : x.childid = req[r].childId

\* C3 -- every connection a handler checked out is back in the pool (idle, or
\* handed on to a request that runs now) once the handler has ended, whatever
\* the path.
C3_ConnectionReleased ==
  \A r \in Requests :
    (Finished(r) /\ req[r].client # NoId)
      => \/ \E i \in 1..Len(idle) : idle[i] = req[r].client
         \/ \E q \in Requests \ {r} : InFlight(q) /\ req[q].client = req[r].client

\* A handler whose ROLLBACK in the catch block failed has ended, and its
\* connection is idle in the pool.
C3_Witness ==
  \E r \in Requests :
    /\ req[r].pc = "done" /\ req[r].client # NoId
    /\ req[r].response = NoResponse
    /\ \E i \in 1..Len(idle) : idle[i] = req[r].client

\* C4 -- as claimed: every handler that sent BEGIN and ended without its
\* success response sent a ROLLBACK before the release, and no idle connection
\* of the pool is inside an open transaction.
C4_RollbackBeforeRelease ==
  /\ \A r \in Requests :
       (Finished(r) /\ req[r].began /\ req[r].response.status \notin {200, 201})
         => req[r].rollbackIssued
  /\ \A i \in 1..Len(idle) : clients[idle[i]].txn # "open"

\* The createRegistration of part_009:852 has ended and its result is on record.
CreateDone(r) == req[r].kind = "createRegistration" /\ req[r].pc = "done"

\* Every statement of the request executed and its connection was obtained:
\* the database threw nothing, neither in the try block nor in catch, and
\* pool.connect() resolved.
NoDbError(r) == req[r].err \notin {"database error", "connection error"}

\* The registrations rows of the request's child.
RegistrationsOf(d, childId) == { x \in d.registrations : x.childid = childId }

\* The enrollmentplanid of the enrollmentplans rows for the (programId,
\* roomTypeId) pair submitted by request r.
MappingOf(r) ==
  { y.enrollmentplanid :
      y \in { z \in enrollmentplans :
                /\ z.programid = Selection(req[r]).programType
                /\ z.roomtypeid = Selection(req[r]).roomType } }

\* C5 -- as claimed: a createRegistration whose (programId, roomTypeId) pair has
\* no enrollmentplans row fails with a validation error (400) and creates
\* nothing; one whose pair has a row succeeds (201) and its registration row
\* references that mapping's enrollmentplanid. Stated for the calls whose
\* statements all executed.
C5_LookupIntegrity_AsClaimed ==
  \A r \in Requests : (CreateDone(r) /\ NoDbError(r)) =>
    IF MappingOf(r) = {}
      THEN req[r].response.status = 400 /\ ~Written(db, r)
      ELSE /\ req[r].response.status = 201
           /\ \E x \in RegistrationsOf(db, req[r].childId) :
                x.enrollmentplanid = First(MappingOf(r))

\* C5 -- lookup integrity, when every statement executes: a createRegistration
\* whose (programId, roomTypeId) pair has no enrollmentplans row answers 400
\* with the message of the failed lookup and creates nothing; one whose pair
\* has a row and whose payment plan resolves answers 201 and the registration
\* row it wrote for the new child references that mapping's enrollmentplanid; one whose
\* pair has a row but whose payment plan does not resolve answers 400 and
\* creates nothing.
C5_LookupIntegrity ==
  \A r \in Requests : (CreateDone(r) /\ NoDbError(r)) =>
    IF MappingOf(r) = {}
      THEN /\ req[r].response.status = 400
           /\ req[r].response.error =
                (IF ProgramRes(req[r]) = {} \/ RoomRes(req[r]) = {}
                   THEN "Invalid program or room type"
                   ELSE "No enrollment plan found for selected program & room")
           /\ ~Written(db, r)
      ELSE IF PaymentRes(req[r]) = {}
      THEN /\ req[r].response.status = 400
           /\ req[r].response.error = "Invalid payment plan type"
           /\ ~Written(db, r)
      ELSE /\ req[r].response.status = 201
           /\ \E x \in RegistrationsOf(db, req[r].childId) : x.data = r
           /\ \A x \in db.registrations :
                x.data = r => /\ x.childid = req[r].childId
                              /\ x.enrollmentplanid = First(MappingOf(r))

\* Both sides of C5 happen: one create was refused for a pair that exists in
\* programs and roomtypes but not in enrollmentplans, another was committed.
C5_Witness ==
  \E r, q \in Requests :
    /\ req[q].kind = "createRegistration" /\ req[q].pc = "past"
    /\ req[q].response.status = 201
    /\ CreateDone(r) /\ NoDbError(r)
    /\ ProgramRes(req[r]) # {} /\ RoomRes(req[r]) # {} /\ MappingOf(r) = {}
    /\ req[r].response.status = 400

\* C6 -- as claimed: a createRegistration (either variant) whose email matches
\* no users row fails and writes no row, and no children row has a null
\* parentuserid.
C6_OwningUserMustExist ==
  /\ \A r \in Requests :
       ( /\ req[r].kind \in Creates
         /\ req[r].pc = "done"
         /\ req[r].client # NoId
         /\ SelectUser(req[r].body.email) = {} )
         => (req[r].response.status # 201 /\ ~Written(db, r))
  /\ \A x \in db.children : x.parentuserid # NoId

\* The validation message createRegistration owes to a selection, "null" when
\* program, room, mapping and payment plan all resolve.
ValidationMessage(rq) ==
  IF ProgramRes(rq) = {} \/ RoomRes(rq) = {} THEN "Invalid program or room type"
  ELSE IF PlanRes(rq) = {}
    THEN "No enrollment plan found for selected program & room"
  ELSE IF PaymentRes(rq) = {} THEN "Invalid payment plan type"
  ELSE NULL

\* C7 -- as claimed: a createRegistration (either variant) whose program, room
\* type, enrollment-plan mapping or payment plan does not resolve answers
\* HTTP 400 with the message of that case and writes no row. Stated for the
\* calls whose statements all executed and that got past the user lookup.
C7_ValidationIs400 ==
  \A r \in Requests :
    ( /\ req[r].kind \in Creates
      /\ req[r].pc = "done"
      /\ NoDbError(r)
      /\ req[r].response.error # "User not found"
      /\ ValidationMessage(req[r]) # NULL )
      => /\ req[r].response.status = 400
         /\ req[r].response.error = ValidationMessage(req[r])
         /\ ~Written(db, r)

\* The rows of a table whose column values came from the body of request r.
RowsOf(d, table, r) ==
  IF table = "child_guardians"
    THEN { x \in d.child_guardians : x.relationtype = r }
    ELSE { x \in d[table] : x.data = r }

\* A createRegistration (either variant) has answered 201 and is on record.
Created(r) ==
  /\ req[r].kind \in Creates
  /\ req[r].pc = "done"
  /\ req[r].response.status = 201

\* C8 -- a createRegistration that answered 201 has committed exactly one row
\* of its own in each of children, guardians, child_guardians, medicalcontacts,
\* carefacilities and registrations, all for the child id its child insert
\* generated; that child has exactly one children, child_guardians,
\* medicalcontacts and carefacilities row; the child_guardians row links the
\* new guardian as primary; the registrations row holds the resolved
\* enrollmentplanid and paymentplanid, status "Pending Approval" and amount 0;
\* and the response carries that child id.
C8_SuccessfulCreateCommitsOneRowEach ==
  \A r \in Requests : Created(r) =>
    LET id == req[r].childId IN
    /\ id # NoId
    /\ req[r].response.childId = id
    /\ \A t \in Tables : Cardinality(RowsOf(db, t, r)) = 1
    /\ \A t \in Tables \ {"guardians"} : \A x \in RowsOf(db, t, r) : x.childid = id
    /\ \A t \in {"children", "child_guardians", "medicalcontacts", "carefacilities"} :
         Cardinality({ x \in db[t] : x.childid = id }) = 1
    /\ \A cg \in RowsOf(db, "child_guardians", r) :
         /\ cg.isprimary
         /\ RowsOf(db, "guardians", r) = { g \in db.guardians : g.guardianid = cg.guardianid }
    /\ \A x \in RowsOf(db, "registrations", r) :
         /\ x.enrollmentplanid = First(PlanRes(req[r]))
         /\ x.paymentplanid = First(PaymentRes(req[r]))
         /\ x.status = "Pending Approval"
         /\ x.amount = 0

\* A create answered 201 and its registration row is in the committed table.
C8_Witness ==
  \E r \in Requests :
    /\ Created(r)
    /\ \E x \in db.registrations : x.data = r /\ x.childid = req[r].childId
    /\ \E x \in db.children : x.data = r

\* An update call (updateRegistration or updateStudent) has ended, in any way.
UpdateDone(r) == req[r].kind \in Updates /\ req[r].pc = "done"

\* The tables a section of the body of request r is written to.
TablesOf(section, r) ==
  IF section = "childInfo" THEN {"children"}
  ELSE IF section = "parentGuardianInfo"
    THEN {"guardians"} \cup
           (IF req[r].kind = "updateRegistration" /\ req[r].body.relationship
              THEN {"child_guardians"} ELSE {})
  ELSE IF section = "medicalInfo" THEN {"medicalcontacts"}
  ELSE IF section = "careFacilityInfo" THEN {"carefacilities"}
  ELSE IF req[r].kind = "updateRegistration" THEN {"registrations"} ELSE {}

\* C9 -- partial update isolation: when an update call has ended, every table
\* that no section of its body is written to is exactly as it was when the call
\* arrived (a body holding only medicalInfo can change medicalcontacts alone),
\* and in every table the rows of the other children are as they were.
C9_PartialUpdateIsolation ==
  \A r \in Requests : UpdateDone(r) =>
    /\ \A t \in Tables :
         (t \notin UNION { TablesOf(s, r) : s \in req[r].body.sections })
           => db[t] = before[t]
    /\ \A t \in Tables \ {"guardians"} :
         { x \in db[t] : x.childid # req[r].childId } =
         { x \in before[t] : x.childid # req[r].childId }

\* An update whose body held only medicalInfo was committed and changed the
\* child's medicalcontacts row.
C9_Witness ==
  \E r \in Requests :
    /\ UpdateDone(r)
    /\ req[r].kind = "updateStudent"
    /\ req[r].response.status = 200
    /\ req[r].body.sections = {"medicalInfo"}
    /\ db.medicalcontacts # before.medicalcontacts
    /\ \E x \in db.medicalcontacts : x.childid = req[r].childId /\ x.data = r

\* An updateRegistration whose body held enrollmentProgramDetails has ended
\* with every statement executed and without the guardian lookup of an earlier
\* section coming back empty.
EnrollmentUpdateDone(r) ==
  /\ req[r].kind = "updateRegistration"
  /\ req[r].pc = "done"
  /\ "enrollmentProgramDetails" \in req[r].body.sections
  /\ NoDbError(r)
  /\ req[r].err # "Guardian not found for this child"

\* C10 -- enrollment upsert on update: an updateRegistration given
\* enrollmentProgramDetails answers 400 with the message createRegistration
\* gives for the same selection and changes nothing when program, room,
\* mapping or payment plan does not resolve; otherwise it answers 200, and if
\* the child had registrations rows they are the same rows (same
\* registrationid, same amount) now holding the resolved enrollmentplanid and
\* paymentplanid and the given status (or "Pending Approval"), and if it had
\* none it has exactly one, holding the resolved ids and amount 0.
C10_EnrollmentUpsert ==
  \A r \in Requests : EnrollmentUpdateDone(r) =>
    LET id == req[r].childId
        old == RegistrationsOf(before, id)
        new == RegistrationsOf(db, id)
    IN
    IF ValidationMessage(req[r]) # NULL
      THEN /\ req[r].response.status = 400
           /\ req[r].response.error = ValidationMessage(req[r])
           /\ db = before
      ELSE /\ req[r].response.status = 200
           /\ new # {}
           /\ \A x \in new :
                /\ x.enrollmentplanid = First(PlanRes(req[r]))
                /\ x.paymentplanid = First(PaymentRes(req[r]))
                /\ x.status = StatusOrDefault(Selection(req[r]).status)
           /\ IF old # {}
                THEN /\ { x.registrationid : x \in new } = { x.registrationid : x \in old }
                     /\ \A x \in new : \E y \in old :
                          y.registrationid = x.registrationid /\ y.amount = x.amount
                ELSE Cardinality(new) = 1 /\ \A x \in new : x.amount = 0
           /\ { x \in db.registrations : x.childid # id } =
              { x \in before.registrations : x.childid # id }

\* Both branches of the upsert happen: an updateRegistration inserted the
\* registration of a child that had none, and another rewrote an existing one.
C10_Witness ==
  \E r \in Requests :
    /\ EnrollmentUpdateDone(r)
    /\ req[r].response.status = 200
    /\ RegistrationsOf(before, req[r].childId) # {}
    /\ RegistrationsOf(db, req[r].childId) # RegistrationsOf(before, req[r].childId)
    /\ \E q \in Requests :
         /\ req[q].kind = "updateRegistration" /\ req[q].pc = "past"
         /\ req[q].response.status = 200
         /\ \E x \in RegistrationsOf(db, 2) : x.registrationid # 1

\* The payload P of request r as createRegistration reads it: every field of
\* the four personal sections (worth the request's id) and the ids of the
\* selected program, room type and payment plan.
Payload(r) ==
  [ childInfo |-> [f \in ChildFields |-> r],
    parentGuardianInfo |->
      [f \in GuardianFields \cup PhoneFields \cup AlternatePhoneFields
               \cup {"relationship"} |-> r],
    medicalInfo |->
      [f \in MedicalFields \cup PhoneFields \cup AlternatePhoneFields |-> r],
    careFacilityInfo |-> [f \in CareFields \cup {"phoneType"} |-> r],
    enrollmentProgramDetails |->
      [ programType |-> JsonNumber(Selection(req[r]).programType),
        roomType |-> JsonNumber(Selection(req[r]).roomType),
        planType |-> JsonNumber(Selection(req[r]).planType) ] ]

\* Every field of a section of the payload is in the same section of the
\* student object, with the same value.
SameSection(payload, student, section) ==
  /\ section \in DOMAIN student
  /\ \A f \in DOMAIN payload[section] :
       /\ f \in DOMAIN student[section]
       /\ student[section][f] = payload[section][f]

\* The GET in `read` asked one of the get-by-id handlers for the child that
\* the createRegistration r made, and the query ran.
ReadBack(r) ==
  /\ CreateDone(r) /\ req[r].response.status = 201
  /\ read.kind \in {"getStudentById", "getRegistrationByChildId"}
  /\ read.childId = req[r].response.childId
  /\ read.status # 500

\* C11 -- as claimed: after createRegistration succeeded with payload P and
\* returned childId, get-by-id for that childId returns a student object whose
\* childInfo, parentGuardianInfo, medicalInfo, careFacilityInfo and
\* enrollmentProgramDetails fields equal those of P.
C11_RoundTrip ==
  \A r \in Requests :
    ReadBack(r)
      => /\ read.status = 200
         /\ \A section \in Sections : SameSection(Payload(r), read.data[1], section)

\* The update r answered 200, its body held parentGuardianInfo and its
\* SELECT found a guardian row for the child; then GET /api/students/:childId
\* was asked for that child and the query ran.
GuardianUpdateReadBack(r) ==
  /\ UpdateDone(r) /\ req[r].response.status = 200
  /\ "parentGuardianInfo" \in req[r].body.sections
  /\ req[r].guardianId # NoId
  /\ read.kind = "getStudentById"
  /\ read.childId = req[r].childId
  /\ read.status # 500

\* C12 -- after a successful guardian update of an existing child, GET
\* /api/students/:childId returns the new phone number in parentGuardianInfo:
\* the guardian row the update resolved is the row the read side joins as the
\* primary guardian; and when the body held only parentGuardianInfo, every
\* other section of the student object is what a GET made before the update
\* would have returned.
C12_GuardianPhoneReadBack ==
  \A r \in Requests :
    GuardianUpdateReadBack(r)
      => /\ read.status = 200
         /\ read.data[1].parentGuardianInfo["guardianId"] = req[r].guardianId
         /\ \A f \in PhoneFields : read.data[1].parentGuardianInfo[f] = r
         /\ req[r].body.sections = {"parentGuardianInfo"}
              => \E old \in JoinRows(before, { c \in before.children :
                                                 c.childid = req[r].childId }) :
                   \A section \in Sections \ {"parentGuardianInfo"} :
                     StudentOf(old)[section] = read.data[1][section]

\* An updateRegistration that held only parentGuardianInfo changed the
\* guardian of a child, and a GET of the child showed the new number.
C12_Witness ==
  \E r \in Requests :
    /\ GuardianUpdateReadBack(r)
    /\ req[r].kind = "updateRegistration"
    /\ req[r].body.sections = {"parentGuardianInfo"}
    /\ read.status = 200
    /\ read.data[1].parentGuardianInfo["phoneNumber"] = r
    /\ \E g \in before.guardians : g.guardianid = req[r].guardianId /\ g.data # r

\* The GET in `read` was a get-by-id whose query ran.
GetByIdRan ==
  /\ read.kind \in {"getStudentById", "getRegistrationByChildId",
                    "getRegistrationByChildId_v1"}
  /\ read.status \notin {0, 500}

\* C13 -- as claimed: get-by-id (GET /api/registrations/:childId and GET
\* /api/students/:childId) for a child id that has no children row answers
\* 404 and never a success.
C13_MissingChildIs404 ==
  (GetByIdRan /\ \A c \in db.children : c.childid # read.childId)
    => read.status = 404

\* The objects of the list in `read` that are about child id.
ObjectsOf(childId) ==
  { i \in 1..Len(read.data) : read.data[i].childInfo["childId"] = childId }

\* C14 -- as claimed: get-all returns exactly one student object per distinct
\* child id present in children, however many rows the join has for the child;
\* totalCount equals the number of objects in data; and with no children the
\* result is a success with an empty list.
C14_GetAllGrouped ==
  (read.kind = "getAllStudents" /\ read.status # 500)
    => /\ read.status = 200
       /\ \A c \in db.children : Cardinality(ObjectsOf(c.childid)) = 1
       /\ \A i \in 1..Len(read.data) :
            \E c \in db.children : c.childid = read.data[i].childInfo["childId"]
       /\ read.hasTotalCount /\ read.totalCount = Len(read.data)

\* The child_guardians rows of a child that are marked primary.
PrimaryLinksOf(d, childId) ==
  { x \in d.child_guardians : x.childid = childId /\ x.isprimary }

\* C15 -- in every state reachable by any sequence of create and update
\* operations, each child has at most one child_guardians row with
\* isprimary = true.
C15_OnePrimaryGuardian ==
  \A x \in db.child_guardians : Cardinality(PrimaryLinksOf(db, x.childid)) <= 1

\* A child registered by one request had its relationship rewritten by an
\* updateRegistration, and both committed.
C15_Witness ==
  \E r \in Requests, q \in Requests :
    /\ req[q].kind \in Creates /\ req[q].response.status = 201
    /\ req[r].kind = "updateRegistration" /\ req[r].response.status = 200
    /\ req[r].childId = req[q].response.childId
    /\ \E x \in PrimaryLinksOf(db, req[r].childId) : x.relationtype = r

\* The create or update r failed: it ended without its success response.
Failed(r) ==
  /\ Finished(r)
  /\ req[r].response.status \notin {200, 201}

\* C17 -- as claimed: no silent failure.  Every create or update that fails
\* ends with a structured JSON error response, which for a database or a
\* connection error is a 500 that carries the error message; no request is
\* left without a response.
C17_NoSilentFailure ==
  \A r \in Requests :
    Failed(r)
      => /\ req[r].response # NoResponse
         /\ req[r].response.status \in {400, 500}
         /\ req[r].response.error # NULL
         /\ (req[r].pc = "done" /\ ~NoDbError(r)) => req[r].response.status = 500

\* ------------------------------------------------- the registration form
\* The POST that HttpClient has in flight for the submission, or sent last.
Post == ui.posts

\* The HTTP response of the POST arrived (a handler that ended with no
\* response leaves HttpClient waiting).
Responded(r) == req[r].pc = "done" /\ req[r].response # NoResponse

\* RegistrationComponent.submitRegistration: this.isSubmitting = true;
\* this.apiService.registerStudent(registrationData).subscribe(...), which
\* sends POST /api/registrations with the ids the form holds.
submitRegistration ==
  /\ ~ui.isSubmitting /\ ui.posts = 0
  /\ \E body \in CreateBodies("createRegistration"), ok \in BOOLEAN :
       /\ ui' = [ui EXCEPT !.isSubmitting = TRUE, !.posts = 1,
                           !.kind = "createRegistration", !.body = body]
       /\ Connect(1, "createRegistration", body, NoId, ok, req)
  /\ UNCHANGED <<read, app>>

\* .pipe(retry(1), ...): on the first error of the POST the source observable
\* is subscribed again, which sends the same POST a second time.
registerStudent_retry ==
  /\ ui.isSubmitting /\ ui.posts = 1
  /\ Responded(Post) /\ req[Post].response.status # 201
  /\ \E ok \in BOOLEAN :
       /\ ui' = [ui EXCEPT !.posts = 2]
       /\ Connect(2, ui.kind, ui.body, NoId, ok, req)
  /\ UNCHANGED <<read, app>>

\* subscribe({ next }): this.successMessage = 'Registration Saved
\* Successfully!'; this.isSubmitting = false
subscribe_next ==
  /\ ui.isSubmitting
  /\ Responded(Post) /\ req[Post].response.status = 201
  /\ ui' = [ui EXCEPT !.isSubmitting = FALSE,
                      !.successMessage = "Registration Saved Successfully!"]
  /\ UNCHANGED <<db, seq, clients, idle, req, before, read, app>>

\* subscribe({ error }), reached through catchError(handleError) once retry
\* has given up: this.isSubmitting = false; this.errorMessage = 'Registration
\* failed'
subscribe_error ==
  /\ ui.isSubmitting /\ ui.posts = 2
  /\ Responded(Post) /\ req[Post].response.status # 201
  /\ ui' = [ui EXCEPT !.isSubmitting = FALSE, !.errorMessage = "Registration failed"]
  /\ UNCHANGED <<db, seq, clients, idle, req, before, read, app>>

SubmitNext ==
  \/ submitRegistration
  \/ registerStudent_retry
  \/ subscribe_next
  \/ subscribe_error
  \/ \E r \in Requests :
       Begin(r) \/ CreateNext(r) \/ Commit(r) \/ ValidationRollback(r) \/ CatchRollback(r)

\* One submission of the registration form against the server.
SubmitSpec == Init /\ [][SubmitNext]_vars

\* C18 -- as claimed: a create-registration request that fails with a
\* validation error or a transaction error is never retried automatically;
\* one user submission results in at most one POST /api/registrations
\* reaching the server.
C18_NoAutomaticRetry ==
  /\ ui.posts <= 1
  /\ Cardinality({ r \in Requests : req[r].pc # "new" }) <= 1

\* ------------------------------------------------- concurrent requests
\* The bodies of the requests that are run against each other: a registration
\* of a known user (with a selection that resolves, with a program that does
\* not exist), and updates of the guardian section, of the enrollment section
\* or of every section.
ConcBodies(kind) ==
  IF kind \in Creates
    THEN { b \in CreateBodies(kind) :
             /\ SelectUser(b.email) # {}
             /\ b.enrollmentProgramDetails.roomType = 1
             /\ b.enrollmentProgramDetails.planType = 1 }
    ELSE { b \in [email : {<<>>},
                  sections : IF kind = "updateStudent"
                               THEN { {"parentGuardianInfo"} }
                               ELSE { {"parentGuardianInfo"},
                                      {"enrollmentProgramDetails"}, Sections },
                  relationship : BOOLEAN,
                  enrollmentProgramDetails :
                    {NoSelection,
                     [programType |-> 2, roomType |-> 2, planType |-> 2,
                      status |-> NULL]}] :
             /\ b.relationship <=> b.sections = Sections
             /\ (b.enrollmentProgramDetails # NoSelection)
                  <=> ("enrollmentProgramDetails" \in b.sections) }

\* req.params.childId of the updates that are run against each other: the
\* child that has a guardian and a registration, and the child that has none.
ConcParams == {1, 2}

\* A request reaches its handler whatever the other handlers are doing: Node
\* runs a handler until its next await and then takes up another.
ConcArrive(r) ==
  /\ req[r].pc = "new"
  /\ \A q \in Requests : q < r => req[q].pc # "new"
  /\ \E kind \in {"createRegistration", "updateRegistration", "updateStudent"},
        ok \in BOOLEAN :
       \E body \in ConcBodies(kind),
          childId \in IF kind \in Creates THEN {NoId} ELSE ConcParams :
         Connect(r, kind, body, childId, ok, req)
  /\ UNCHANGED <<read, ui, app>>

ConcNext == \E r \in Requests : ConcArrive(r) \/ HandlerNext(r)

ConcSpec == Init /\ [][ConcNext]_vars

\* C16 -- as claimed: registration is one-to-one with child.  After any
\* sequence or interleaving of createRegistration and updateRegistration
\* calls, every child has at most one row in registrations.
C16_OneRegistrationPerChild ==
  \A x \in db.registrations : Cardinality(RegistrationsOf(db, x.childid)) <= 1

\* Requests r and q are two createRegistration calls, and r answered 201.
CreatedBeside(r, q) ==
  /\ r # q
  /\ req[r].kind = "createRegistration" /\ req[q].kind = "createRegistration"
  /\ req[r].response.status = 201

\* C19 -- two createRegistration transactions for different children that run
\* concurrently are independent in every interleaving of their statements:
\* one that commits leaves its own complete record set (one row per table)
\* keyed by the child id and the guardian id it generated itself, these ids
\* differ from those the other generated and no row of its set references the
\* other's; and this stays so whether the other commits, fails or rolls back.
C19_ConcurrentCreatesIndependent ==
  \A r \in Requests, q \in Requests :
    CreatedBeside(r, q)
      => /\ req[r].childId # NoId /\ req[r].guardianId # NoId
         /\ req[r].childId # req[q].childId
         /\ req[r].guardianId # req[q].guardianId
         /\ \A t \in Tables : Cardinality(RowsOf(db, t, r)) = 1
         /\ \A t \in Tables \ {"guardians"} :
              \A x \in RowsOf(db, t, r) : x.childid = req[r].childId
         /\ \A t \in {"guardians", "child_guardians"} :
              \A x \in RowsOf(db, t, r) : x.guardianid = req[r].guardianId
         /\ \A t \in Tables : \A x \in RowsOf(db, t, q) :
              /\ t # "guardians" => x.childid # req[r].childId
              /\ t \in {"guardians", "child_guardians"}
                   => x.guardianid # req[r].guardianId

\* The first createRegistration committed although the second, whose child
\* row was inserted before the first's, failed and was rolled back.
C19_Witness ==
  /\ CreatedBeside(1, 2)
  /\ req[2].pc = "done" /\ req[2].response.status = 500
  /\ req[2].rollbackIssued
  /\ req[2].childId # NoId /\ req[2].childId < req[1].childId
  /\ \A t \in Tables : RowsOf(db, t, 2) = {}

\* The update r holds parentGuardianInfo and its SELECT found the guardian
\* row of the child.
GuardianUpdate(r) ==
  /\ req[r].kind \in Updates
  /\ "parentGuardianInfo" \in req[r].body.sections
  /\ req[r].guardianId # NoId

\* The COMMIT of request r is answered and r reports success.
Commits(r) ==
  /\ req[r].pc = "COMMIT"
  /\ req'[r].pc = "done" /\ req'[r].response.status = 200

\* C20 -- concurrent updates to the same child's guardian are last-write-wins
\* with no conflict detection: an update of the guardian is never rejected or
\* rolled back because of the other (it reports success unless the database
\* threw an error), and when its COMMIT is answered the guardian row holds its
\* values, so the final row is that of the update that committed last.
C20_LastWriteWins ==
  /\ [](\A r \in Requests :
          (GuardianUpdate(r) /\ req[r].pc = "done")
            => (req[r].response.status = 200 \/ ~NoDbError(r)))
  /\ [][\A r \in Requests :
          (GuardianUpdate(r) /\ Commits(r))
            => \A g \in db'.guardians :
                 g.guardianid = req[r].guardianId => g.data = r]_vars

\* Two updates of the guardian of child 1 ran against each other, both
\* reported success, and the row holds the values of the one that arrived
\* first and committed last.
C20_Witness ==
  /\ GuardianUpdate(1) /\ GuardianUpdate(2)
  /\ req[1].guardianId = req[2].guardianId
  /\ req[1].kind = "updateRegistration" /\ req[2].kind = "updateStudent"
  /\ req[1].response.status = 200 /\ req[2].response.status = 200
  /\ \A g \in db.guardians : g.guardianid = req[1].guardianId => g.data = 1

\* ------------------------------------------------------------------ login
\* req.body of POST /api/login: a missing field, the stored email in its own
\* case and in another, an email no user has; the stored password and another.
LoginEmails == { <<>>, <<"A", "@", "m">>, <<"a", "@", "m">>, <<"B", "@", "m">> }

LoginPasswords == { "", "pw", "xx" }

Credentials == [email : LoginEmails, password : LoginPasswords]

\* SELECT u.userid, u.email, u.password, u.roleid FROM users u WHERE u.email = $1
SelectUserByEmail(email) == { u \in users : u.email = email }

\* A response that carries the users row as it was selected.
UserRow(row) == row

\* user: { userid: user.userid, email: user.email, roleid: user.roleid }
UserOf(row) == [userid |-> row.userid, email |-> row.email, roleid |-> row.roleid]

\* res.status(status).json({ success, message, user })
LoginResponse(status, success, message, user) ==
  [status |-> status, success |-> success, message |-> message, user |-> user]

\* POST /api/login
login ==
  /\ auth.pc = "posted"
  /\ \E ok \in BOOLEAN :
       LET email == auth.credentials.email
           password == auth.credentials.password
           rows == SelectUserByEmail(email)
           respond(response) == auth' = [auth EXCEPT !.pc = "responded",
                                                     !.response = response]
       IN
       IF email = <<>> \/ password = ""
         THEN /\ respond(LoginResponse(400, FALSE, "Email and password are required",
                                       NoUser))
              /\ UNCHANGED <<clients, idle>>
         ELSE /\ PoolQuery(ok)
              /\ IF ~PoolAnswers(ok)
                   THEN respond(LoginResponse(500, FALSE, "Server error during login",
                                              NoUser))
                 ELSE IF rows = {}
                   THEN respond(LoginResponse(401, FALSE, "Invalid email or password",
                                              NoUser))
                 ELSE \E user \in rows :
                        IF ~comparePassword(password, user.password)
                          THEN respond(LoginResponse(401, FALSE,
                                                     "Invalid email or password", NoUser))
                          ELSE respond(LoginResponse(200, TRUE, "Login successful",
                                                     UserOf(user)))
  /\ UNCHANGED <<db, seq, req, before, read, ui, cache, page, form>>

\* AuthenticationService.login(credentials): apiService.login sends the POST.
AuthenticationService_login ==
  /\ auth.pc = "idle"
  /\ \E credentials \in Credentials :
       auth' = [auth EXCEPT !.pc = "posted", !.credentials = credentials,
                            !.posts = 1, !.response = NoLoginResponse,
                            !.told = NULL]
  /\ UNCHANGED <<db, seq, clients, idle, req, before, read, ui, cache, page, form>>

\* retry(1) of ApiService.login: the POST that failed is sent once more.
ApiService_login_retry ==
  /\ auth.pc = "responded" /\ auth.response.status # 200 /\ auth.posts = 1
  /\ auth' = [auth EXCEPT !.pc = "posted", !.posts = 2]
  /\ UNCHANGED <<db, seq, clients, idle, req, before, read, ui, cache, page, form>>

\* The next callback of AuthenticationService.login: a successful response
\* is stored and published in the browser; LoginComponent then navigates to
\* /students, which the guard decides as every navigation.
AuthenticationService_login_next ==
  /\ auth.pc = "responded" /\ auth.response.status = 200
  /\ auth' = [auth EXCEPT
       !.pc = "idle", !.told = "next",
       !.origin = IF auth.response.success THEN "login" ELSE @,
       !.storage = IF auth.response.success /\ auth.isBrowser
                     THEN auth.response.user ELSE @,
       !.currentUser = IF auth.response.success /\ auth.isBrowser
                         THEN auth.response.user ELSE @]
  /\ UNCHANGED <<db, seq, clients, idle, req, before, read, ui, cache, page, form>>

\* The error callback of AuthenticationService.login, once retry has given up.
AuthenticationService_login_error ==
  /\ auth.pc = "responded" /\ auth.response.status # 200 /\ auth.posts = 2
  /\ auth' = [auth EXCEPT !.pc = "idle", !.told = "error"]
  /\ UNCHANGED <<db, seq, clients, idle, req, before, read, ui, cache, page, form>>

\* AuthenticationService.logout()
AuthenticationService_logout ==
  /\ auth' = [auth EXCEPT !.storage = IF auth.isBrowser THEN NoUser ELSE @,
                          !.currentUser = NoUser, !.origin = "none"]
  /\ UNCHANGED <<db, seq, clients, idle, req, before, read, ui, cache, page, form>>

\* The page is loaded again: the constructor of AuthenticationService reads
\* localStorage; the application starts on the login page and a login that
\* was in flight has no subscriber any more.
AuthenticationService_constructor ==
  /\ auth.pc = "idle"
  /\ LET storedUser == IF auth.isBrowser THEN auth.storage ELSE NoUser IN
     auth' = [NoLogin EXCEPT !.isBrowser = auth.isBrowser, !.storage = auth.storage,
                             !.currentUser = storedUser,
                             !.origin = IF storedUser # NoUser THEN "storage"
                                                               ELSE "none"]
  /\ UNCHANGED <<db, seq, clients, idle, req, before, read, ui, cache, page, form>>

\* A guard that lets everybody in.
isLoggedInAlways(a) == TRUE

\* AuthenticationService.isLoggedIn(): !!this.currentUserValue
isLoggedIn(a) == a.currentUser # NoUser

\* The routes of app.routes.ts that carry canActivate: [AuthGuard].
GuardedRoutes == { "students/:childId", "students", "registration", "edit-registration" }

\* AuthGuard.canActivate for a navigation to a guarded route.
canActivate(route) ==
  /\ IF ~isLoggedIn(auth)
       THEN auth' = [auth EXCEPT !.route = route, !.activated = FALSE, !.url = "/"]
       ELSE auth' = [auth EXCEPT !.route = route, !.activated = TRUE, !.url = route]
  /\ UNCHANGED <<db, seq, clients, idle, req, before, read, ui, cache, page, form>>

\* The application in a browser, with or without a stored user, or rendered
\* on the server, where there is no localStorage.
LoginInit ==
  /\ read = NoRead
  /\ ui = NoSubmission
  /\ \E isBrowser \in BOOLEAN :
       \E storedUser \in IF isBrowser THEN {NoUser} \cup { UserOf(u) : u \in users }
                                      ELSE {NoUser} :
         auth = [NoLogin EXCEPT !.isBrowser = isBrowser, !.storage = storedUser,
                                !.currentUser = storedUser,
                                !.origin = IF storedUser # NoUser THEN "storage"
                                                                  ELSE "none"]
  /\ cache = NoCache
  /\ page = NoPage
  /\ form = NoForm
  /\ db = InitialDb
  /\ seq = [childid |-> 3, guardianid |-> 2, registrationid |-> 2]
  /\ clients = <<>>
  /\ idle = <<>>
  /\ req = [r \in Requests |-> NoRequest]
  /\ before = InitialDb

LoginNext ==
  \/ AuthenticationService_login
  \/ login
  \/ ApiService_login_retry
  \/ AuthenticationService_login_next
  \/ AuthenticationService_login_error
  \/ AuthenticationService_logout
  \/ AuthenticationService_constructor
  \/ \E route \in GuardedRoutes : canActivate(route)

LoginSpec == LoginInit /\ [][LoginNext]_vars

\* C21 -- POST /api/login, once its query was answered, reports success
\* exactly when a users row has the email of the body and the password of the
\* body verifies against the hash of that row; the success carries status 200
\* and a user of exactly userid, email and roleid of that row, never its
\* password; every refusal of a complete body, for an unknown email as for a
\* wrong password, is the one 401 response "Invalid email or password".
C21_LoginResponse ==
  (auth.pc = "responded" /\ auth.response.status # 500) =>
    LET body == auth.credentials
        response == auth.response
        verified == { u \in users : /\ u.email = body.email
                                    /\ u.password.digest =
                                         <<u.password.salt, body.password>> }
    IN
    /\ response.success <=> verified # {}
    /\ response.success =>
         /\ response.status = 200
         /\ DOMAIN response.user = {"userid", "email", "roleid"}
         /\ \E u \in verified : /\ response.user.userid = u.userid
                                /\ response.user.email = u.email
                                /\ response.user.roleid = u.roleid
    /\ (~response.success /\ body.email # <<>> /\ body.password # "") =>
         response = [status |-> 401, success |-> FALSE,
                     message |-> "Invalid email or password", user |-> NoUser]

\* A login with the stored email and its password was answered with success.
C21_Witness ==
  /\ auth.pc = "responded"
  /\ auth.response.success
  /\ auth.credentials = [email |-> <<"A", "@", "m">>, password |-> "pw"]

\* C24 -- AuthGuard.canActivate returns true exactly when
\* AuthenticationService holds a current user, and then the route is
\* activated; otherwise it returns false and the router is sent to the login
\* page. A current user is held only after a login succeeded or a stored user
\* was found, and not after logout, so none of the four guarded routes is
\* activated from logout until a login succeeds.
C24_GuardedRoutes ==
  [][ \A route \in GuardedRoutes :
        canActivate(route) =>
          /\ auth'.activated <=> auth.currentUser # NoUser
          /\ auth'.activated => auth.origin # "none" /\ auth'.url = route
          /\ ~auth'.activated => auth'.url = "/" ]_vars

\* After a login that succeeded and a logout, a guarded route was refused and
\* the router sent to the login page.
C24_Witness ==
  /\ auth.told = "next" /\ auth.response.success
  /\ auth.origin = "none"
  /\ auth.route \in GuardedRoutes /\ ~auth.activated /\ auth.url = "/"

\* The statements of createRegistration in the order of its source.
Steps ==
  << "BEGIN", "SELECT users", "INSERT children", "INSERT guardians",
     "INSERT child_guardians", "INSERT medicalcontacts", "INSERT carefacilities",
     "SELECT programs", "SELECT roomtypes", "SELECT enrollmentplans",
     "SELECT paymentplan", "INSERT registrations", "COMMIT" >>

\* The place of a statement among the steps.
StepOf(pc) == CHOOSE i \in 1..Len(Steps) : Steps[i] = pc

\* The rows the open transaction of a connection has inserted into a table.
InsertedInto(cl, table) ==
  { cl.log[i].row : i \in { j \in 1..Len(cl.log) :
                              cl.log[j].op = "insert" /\ cl.log[j].table = table } }

\* C23 -- the statements of one createRegistration are sent strictly in the
\* order BEGIN, user lookup, child insert, guardian insert, child_guardians
\* insert, medical insert, care-facility insert, program and room lookup,
\* enrollment-plan lookup, payment-plan lookup, registration insert, COMMIT:
\* every step of the handler either moves from one statement to the very next
\* one or leaves the sequence for good (catch, validation ROLLBACK, response);
\* every row inserted for a child carries the id the child insert returned,
\* and the children row is in the transaction before any of them; COMMIT is
\* reached only from the registration insert of a transaction in which no
\* statement failed.
C23_StepsInOrder ==
  [][ \A r \in Requests :
        (req[r].kind = "createRegistration" /\ req'[r].kind = "createRegistration"
           /\ req'[r].pc # req[r].pc) =>
          LET old == req[r].pc
              new == req'[r].pc
              cl == clients'[req[r].client]
              InSteps(pc) == \E i \in 1..Len(Steps) : Steps[i] = pc
          IN
          /\ (InSteps(old) /\ InSteps(new)) => StepOf(new) = StepOf(old) + 1
          /\ (InSteps(new) /\ ~InSteps(old)) => (old = "new" /\ new = "BEGIN")
          /\ (InSteps(new) /\ new # "BEGIN") =>
               /\ cl.txn = "open"
               /\ req'[r].err = NULL /\ ~req'[r].rollbackIssued
               /\ \A t \in Tables \ {"children", "guardians"} :
                    \A x \in InsertedInto(cl, t) :
                      /\ req'[r].childId # NoId
                      /\ x.childid = req'[r].childId
                      /\ \E c \in InsertedInto(cl, "children") : c.childid = x.childid
          /\ new = "COMMIT" =>
               /\ old = "INSERT registrations"
               /\ \A t \in Tables : Cardinality(InsertedInto(cl, t)) = 1 ]_vars

\* A createRegistration has sent every statement but COMMIT and none failed.
C23_Witness ==
  \E r \in Requests :
    /\ req[r].kind = "createRegistration" /\ req[r].pc = "COMMIT"
    /\ Len(clients[req[r].client].log) = Cardinality(Tables)

\* An updateRegistration has answered 200.
UpdateRegistrationSucceeded(r) ==
  /\ req[r].kind = "updateRegistration"
  /\ req[r].pc = "done"
  /\ req[r].response.status = 200

\* C26 -- an updateRegistration that succeeded with enrollmentProgramDetails
\* leaves every registrations row of the child with status "Pending Approval"
\* when the body carried no status, whatever the status was before, and with
\* the status of the body when it carried one; and whatever sections an
\* update call carried, every registrations row that existed when it arrived
\* still exists with the amount it had.
C26_StatusDefaultAmountKept ==
  \A r \in Requests :
    /\ (UpdateRegistrationSucceeded(r)
          /\ "enrollmentProgramDetails" \in req[r].body.sections) =>
         LET given == req[r].body.enrollmentProgramDetails.status
             rows == { x \in db.registrations : x.childid = req[r].childId }
         IN
         /\ rows # {}
         /\ \A x \in rows :
              x.status = (IF given = NULL THEN "Pending Approval" ELSE given)
    /\ (req[r].kind = "updateRegistration" /\ req[r].pc = "done") =>
         \A y \in before.registrations :
           \E x \in db.registrations :
             x.registrationid = y.registrationid /\ x.amount = y.amount

\* An update without a status turned an "Approved" registration with a
\* non-zero amount into "Pending Approval" and kept the amount.
C26_Witness ==
  \E r \in Requests :
    /\ UpdateRegistrationSucceeded(r)
    /\ req[r].body.enrollmentProgramDetails # NoSelection
    /\ req[r].body.enrollmentProgramDetails.status = NULL
    /\ \E y \in before.registrations :
         /\ y.childid = req[r].childId /\ y.status = "Approved" /\ y.amount # 0
         /\ \E x \in db.registrations :
              /\ x.registrationid = y.registrationid
              /\ x.status = "Pending Approval" /\ x.amount = y.amount

\* An update call that carried parentGuardianInfo for a child without any
\* child_guardians row has ended, every statement it sent having executed.
GuardianlessUpdateDone(r) ==
  /\ req[r].kind \in Updates
  /\ req[r].pc = "done"
  /\ req[r].childId # NoId
  /\ "parentGuardianInfo" \in req[r].body.sections
  /\ NoDbError(r)
  /\ ~\E cg \in before.child_guardians : cg.childid = req[r].childId

\* C27 -- parentGuardianInfo for a child that has no guardian mapping:
\* updateRegistration answers 500 "Guardian not found for this child" and
\* leaves every table as it was when the call arrived, the child update it
\* had already executed included; updateStudent answers 200, leaves guardians
\* and child_guardians as they were and has committed the childInfo,
\* medicalInfo and careFacilityInfo sections of the body to the child's rows.
C27_GuardianlessChild ==
  \A r \in Requests : GuardianlessUpdateDone(r) =>
    IF req[r].kind = "updateRegistration"
      THEN /\ req[r].response.status = 500
           /\ req[r].response.error = "Guardian not found for this child"
           /\ db = before
      ELSE /\ req[r].response.status = 200
           /\ db.guardians = before.guardians
           /\ db.child_guardians = before.child_guardians
           /\ "childInfo" \in req[r].body.sections =>
                \A x \in db.children : x.childid = req[r].childId => x.data = r
           /\ "medicalInfo" \in req[r].body.sections =>
                \A x \in db.medicalcontacts : x.childid = req[r].childId => x.data = r
           /\ "careFacilityInfo" \in req[r].body.sections =>
                \A x \in db.carefacilities : x.childid = req[r].childId => x.data = r

\* updateStudent was given childInfo and parentGuardianInfo for a child
\* without a guardian and committed the child update alone.
C27_Witness ==
  \E r \in Requests :
    /\ GuardianlessUpdateDone(r)
    /\ req[r].kind = "updateStudent"
    /\ "childInfo" \in req[r].body.sections
    /\ \E x \in db.children : x.childid = req[r].childId /\ x.data = r
    /\ ~\E g \in db.guardians : g.data = r

\* const updateData = { childInfo, parentGuardianInfo, medicalInfo,
\* careFacilityInfo } of ViewStudentsComponent.saveChanges: the fields the
\* form sends, each worth the id of the request that carries them.
updateData(r) ==
  [ childInfo |-> [f \in ChildFields |-> r],
    parentGuardianInfo |->
      [f \in GuardianFields \cup PhoneFields \cup AlternatePhoneFields
               \cup {"relationship"} |-> r],
    medicalInfo |->
      [f \in MedicalFields \cup PhoneFields \cup AlternatePhoneFields |-> r],
    careFacilityInfo |-> [f \in CareFields \cup {"phoneType"} |-> r] ]

\* updateStudent r answered 200 for a child that exists; then GET
\* /api/students/:childId was asked for that child and the query ran.
StudentUpdateReadBack(r) ==
  /\ req[r].kind = "updateStudent" /\ req[r].pc = "done"
  /\ req[r].response.status = 200
  /\ \E c \in db.children : c.childid = req[r].childId
  /\ read.kind = "getStudentById"
  /\ read.childId = req[r].childId
  /\ read.status # 500

\* C28 -- as claimed: after a successful PATCH /api/students/:childId that
\* carried a section, GET /api/students/:childId returns for every field of
\* that section that the view-students form sends, parentGuardianInfo's
\* relationship and medicalInfo's alternate phone included, the value sent.
C28_StudentRoundTrip ==
  \A r \in Requests :
    StudentUpdateReadBack(r)
      => /\ read.status = 200
         /\ \A section \in req[r].body.sections \cap DOMAIN updateData(r) :
              SameSection(updateData(r), read.data[1], section)

\* updatePagination()
updatePagination(p) ==
  LET startIndex == (p.currentPage - 1) * p.itemsPerPage
      endIndex == startIndex + p.itemsPerPage
  IN [p EXCEPT !.paginatedStudents = slice(p.filteredStudents, startIndex, endIndex)]

\* get totalPages()
totalPages(p) == ceil(p.totalItems, p.itemsPerPage)

\* loadAllStudents(): the GET is sent.
loadAllStudents ==
  /\ ~page.isLoading
  /\ page' = [page EXCEPT !.isLoading = TRUE, !.error = ""]
  /\ UNCHANGED <<db, seq, clients, idle, req, before, read, ui, auth, cache, form>>

\* The next callback of loadAllStudents.
loadAllStudents_next ==
  /\ page.isLoading
  /\ \E success \in BOOLEAN, data \in StudentLists :
       page' = IF success
                 THEN [updatePagination([page EXCEPT !.students = data,
                                                      !.filteredStudents = data,
                                                      !.totalItems = Len(data),
                                                      !.currentPage = 1])
                         EXCEPT !.isLoading = FALSE]
                 ELSE [page EXCEPT !.isLoading = FALSE]
  /\ UNCHANGED <<db, seq, clients, idle, req, before, read, ui, auth, cache, form>>

\* The error callback of loadAllStudents.
loadAllStudents_error ==
  /\ page.isLoading
  /\ page' = [page EXCEPT !.isLoading = FALSE,
                          !.error = "Failed to load students. Please try again."]
  /\ UNCHANGED <<db, seq, clients, idle, req, before, read, ui, auth, cache, form>>

\* The search that leaves the page where it is.
onSearch_samePage ==
  /\ \E searchTerm \in SearchTerms :
       LET term == LOWER(searchTerm)
           matches(student) ==
             \/ includes(LOWER(student.childInfo.firstName \o <<" ">>
                                 \o student.childInfo.lastName), term)
             \/ includes(LOWER(student.parentGuardianInfo.firstName \o <<" ">>
                                 \o student.parentGuardianInfo.lastName), term)
           filteredStudents == IF TRIM(searchTerm) = <<>> THEN page.students
                               ELSE filter(page.students,
                                           { student \in { page.students[i] :
                                                             i \in 1..Len(page.students) } :
                                               matches(student) })
       IN page' = updatePagination([page EXCEPT !.searchTerm = searchTerm,
                                                !.filteredStudents = filteredStudents,
                                                !.totalItems = Len(filteredStudents)])
  /\ UNCHANGED <<db, seq, clients, idle, req, before, read, ui, auth, cache, form>>

\* onSearch(), called when the search box has changed searchTerm.
onSearch ==
  /\ \E searchTerm \in SearchTerms :
       LET term == LOWER(searchTerm)
           matches(student) ==
             \/ includes(LOWER(student.childInfo.firstName \o <<" ">>
                                 \o student.childInfo.lastName), term)
             \/ includes(LOWER(student.parentGuardianInfo.firstName \o <<" ">>
                                 \o student.parentGuardianInfo.lastName), term)
           filteredStudents == IF TRIM(searchTerm) = <<>> THEN page.students
                               ELSE filter(page.students,
                                           { student \in { page.students[i] :
                                                             i \in 1..Len(page.students) } :
                                               matches(student) })
       IN page' = updatePagination([page EXCEPT !.searchTerm = searchTerm,
                                                !.filteredStudents = filteredStudents,
                                                !.totalItems = Len(filteredStudents),
                                                !.currentPage = 1])
  /\ UNCHANGED <<db, seq, clients, idle, req, before, read, ui, auth, cache, form>>

\* onItemsPerPageChange(), called when the page-size control has changed
\* itemsPerPage.
onItemsPerPageChange ==
  /\ \E itemsPerPage \in PageSizes :
       page' = updatePagination([page EXCEPT !.itemsPerPage = itemsPerPage,
                                             !.currentPage = 1])
  /\ UNCHANGED <<db, seq, clients, idle, req, before, read, ui, auth, cache, form>>

\* nextPage()
nextPage ==
  /\ page' = IF page.currentPage < totalPages(page)
               THEN updatePagination([page EXCEPT !.currentPage = @ + 1])
               ELSE page
  /\ UNCHANGED <<db, seq, clients, idle, req, before, read, ui, auth, cache, form>>

\* prevPage()
prevPage ==
  /\ page' = IF page.currentPage > 1
               THEN updatePagination([page EXCEPT !.currentPage = @ - 1])
               ELSE page
  /\ UNCHANGED <<db, seq, clients, idle, req, before, read, ui, auth, cache, form>>

PageNext ==
  \/ loadAllStudents
  \/ loadAllStudents_next
  \/ loadAllStudents_error
  \/ onSearch
  \/ onItemsPerPageChange
  \/ nextPage
  \/ prevPage

\* The students list on its own: the server is what answers its GET.
PageSpec == Init /\ [][PageNext]_vars

\* C29 -- after any sequence of loadAllStudents (with its callbacks),
\* onSearch, onItemsPerPageChange, nextPage and prevPage: totalItems is the
\* length of filteredStudents; currentPage is at least 1 and at most the
\* number of pages, or 1 when there is no page; paginatedStudents holds
\* exactly the entries of filteredStudents from position (currentPage - 1) *
\* itemsPerPage on, itemsPerPage of them or as many as are left.
C29_Pagination ==
  LET n == Len(page.filteredStudents)
      size == page.itemsPerPage
      pages == IF n % size = 0 THEN n \div size ELSE n \div size + 1
      first == (page.currentPage - 1) * size
      left == IF n - first < size THEN n - first ELSE size
  IN
  /\ page.totalItems = n
  /\ page.currentPage >= 1
  /\ page.currentPage <= (IF pages < 1 THEN 1 ELSE pages)
  /\ Len(page.paginatedStudents) = left
  /\ Len(page.paginatedStudents) <= size
  /\ \A i \in 1..Len(page.paginatedStudents) :
       page.paginatedStudents[i] = page.filteredStudents[first + i]

\* The second, last and shorter page of a search result is shown.
C29_Witness ==
  /\ page.searchTerm = <<"a">>
  /\ page.currentPage = 2
  /\ page.paginatedStudents # <<>>
  /\ Len(page.paginatedStudents) < page.itemsPerPage
  /\ Len(page.filteredStudents) < Len(page.students)

\* enableEditMode(): the controls are enabled by a setTimeout(..., 0) callback.
enableEditMode ==
  /\ Len(form.timers) < MaxTimers
  /\ form' = [form EXCEPT !.isEditMode = TRUE, !.timers = Append(@, "enable")]
  /\ UNCHANGED <<db, seq, clients, idle, req, before, read, ui, auth, cache, page>>

\* cancelEdit(): populateForm() writes the loaded values back; the controls
\* are disabled by a setTimeout(..., 0) callback.
cancelEdit ==
  /\ Len(form.timers) < MaxTimers
  /\ form' = [form EXCEPT !.isEditMode = FALSE, !.timers = Append(@, "disable")]
  /\ UNCHANGED <<db, seq, clients, idle, req, before, read, ui, auth, cache, page>>

\* The oldest setTimeout callback runs: that of enableEditMode enables every
\* control whose key neither starts with 'enrollment' nor is in keepDisabled,
\* that of cancelEdit disables every control.
setTimeout_callback ==
  /\ form.timers # <<>>
  /\ form' = [form EXCEPT
       !.timers = Tail(@),
       !.enabled = IF Head(form.timers) = "enable"
                     THEN @ \cup { key \in Controls : /\ key \notin EnrollmentPrefixed
                                                      /\ key \notin keepDisabled }
                     ELSE {}]
  /\ UNCHANGED <<db, seq, clients, idle, req, before, read, ui, auth, cache, page>>

\* saveChanges() with a form that passes its checks (studentForm.valid needs
\* an enabled control): isSaving = true and the PATCH is sent.
saveChanges ==
  /\ ~form.patch
  /\ form.enabled # {}
  /\ form' = [form EXCEPT !.isSaving = TRUE, !.patch = TRUE]
  /\ UNCHANGED <<db, seq, clients, idle, req, before, read, ui, auth, cache, page>>

\* The next callback of saveChanges with response.success: isSaving = false,
\* isEditMode = false, every control is disabled at once; loadStudentDetails()
\* then reloads the values.
saveChanges_next ==
  /\ form.patch
  /\ form' = [form EXCEPT !.patch = FALSE, !.isSaving = FALSE,
                          !.isEditMode = FALSE, !.enabled = {}]
  /\ UNCHANGED <<db, seq, clients, idle, req, before, read, ui, auth, cache, page>>

\* The error callback of saveChanges: isSaving = false.
saveChanges_error ==
  /\ form.patch
  /\ form' = [form EXCEPT !.patch = FALSE, !.isSaving = FALSE]
  /\ UNCHANGED <<db, seq, clients, idle, req, before, read, ui, auth, cache, page>>

FormNext ==
  \/ enableEditMode
  \/ cancelEdit
  \/ setTimeout_callback
  \/ saveChanges
  \/ saveChanges_next
  \/ saveChanges_error

\* The detail view of one student: clicks, timers and the response to the
\* PATCH in any order the event loop allows.
FormSpec == Init /\ [][FormNext]_vars

\* C30 -- as claimed: under any sequence of enableEditMode, cancelEdit and
\* successful saveChanges with the setTimeout callbacks run in queue order,
\* no enrollment control is ever enabled, and once no callback is pending
\* every other control is enabled exactly when isEditMode is true.
C30_EditMode ==
  /\ form.enabled \cap keepDisabled = {}
  /\ form.timers = <<>> =>
       \A key \in Controls \ keepDisabled : key \in form.enabled <=> form.isEditMode

\* The lists the server may answer a lookup GET with, at different times.
Lists == {"v1", "v2"}

\* A shareReplay that subscribes to its source for every subscriber.
NeedsSourceAlways(o) == TRUE

\* shareReplay(1) subscribes to its source for a subscriber when it is not
\* subscribed already and holds no list of a source that completed.
NeedsSource(o) == ~o.connected /\ o.buffer = NULL

\* getAllPrograms() / getAllRoomTypes() / getAllPlans() and a subscribe to
\* what it returns: the observable is created on the first call; a list held
\* for replay is given at once; else the subscriber waits, and the GET is
\* sent if none is in flight.
getAll_subscribe(l) ==
  /\ cache[l].subscribers + cache[l].waiting < MaxSubscribers
  /\ LET o == [cache[l] EXCEPT !.created = TRUE, !.subscribers = @ + 1] IN
     cache' = [cache EXCEPT ![l] =
       IF NeedsSource(o)
         THEN [o EXCEPT !.connected = TRUE, !.attempt = 1, !.gets = @ + 1,
                        !.waiting = @ + 1]
       ELSE IF o.buffer # NULL
         THEN [o EXCEPT !.results = @ \cup {o.buffer}]
         ELSE [o EXCEPT !.waiting = @ + 1]]
  /\ UNCHANGED <<db, seq, clients, idle, req, before, read, ui, auth, page, form>>

\* The GET is answered with a list: shareReplay keeps it and gives it to the
\* subscribers that wait; the source completes.
http_get_next(l) ==
  /\ cache[l].connected
  /\ \E list \in Lists :
       cache' = [cache EXCEPT ![l] =
         [@ EXCEPT !.connected = FALSE, !.attempt = 0, !.buffer = list,
                   !.waiting = 0,
                   !.results = IF cache[l].waiting > 0 THEN @ \cup {list} ELSE @]]
  /\ UNCHANGED <<db, seq, clients, idle, req, before, read, ui, auth, page, form>>

\* The GET fails: retry(1) sends it once more; when that fails too,
\* catchError(handleError) rethrows, the subscribers that wait get the error
\* and shareReplay is reset.
http_get_error(l) ==
  /\ cache[l].connected
  /\ cache' = [cache EXCEPT ![l] =
       IF cache[l].attempt = 1
         THEN [@ EXCEPT !.attempt = 2, !.gets = @ + 1, !.failed = @ + 1]
         ELSE [@ EXCEPT !.connected = FALSE, !.attempt = 0, !.failed = @ + 1,
                        !.waiting = 0,
                        !.results = IF cache[l].waiting > 0 THEN @ \cup {"error"}
                                                              ELSE @]]
  /\ UNCHANGED <<db, seq, clients, idle, req, before, read, ui, auth, page, form>>

CacheNext ==
  \E l \in Lookups :
    \/ getAll_subscribe(l)
    \/ http_get_next(l)
    \/ http_get_error(l)

\* The components' calls of the three lookup getters against the server.
CacheSpec == Init /\ [][CacheNext]_vars

\* C25 -- as claimed: for each of the three lookups, repeated calls and
\* concurrent subscribers cause no repeated network request: the list is
\* fetched once and the same result is replayed to every subscriber.
C25_FetchedOnce ==
  \A l \in Lookups :
    /\ cache[l].gets <= 1
    /\ Cardinality(cache[l].results) <= 1

\* C25 -- every lookup GET but the first follows a GET of that lookup that
\* failed, none is sent while one is in flight or after one has succeeded,
\* whatever the number of calls and of subscribers, those arriving before the
\* first response included; once a GET has succeeded its list is the only
\* list any subscriber is ever given.
C25_FetchedOnceUnlessFailed ==
  \A l \in Lookups :
    /\ cache[l].gets <= cache[l].failed + 1
    /\ cache[l].subscribers = 0 => cache[l].gets = 0
    /\ cache[l].connected => cache[l].gets = cache[l].failed + 1
    /\ cache[l].buffer # NULL =>
         /\ ~cache[l].connected
         /\ cache[l].gets = cache[l].failed + 1
         /\ cache[l].results \cap Lists \subseteq {cache[l].buffer}
    /\ cache[l].failed = 0 => cache[l].results \subseteq {cache[l].buffer}

\* Two subscribers arrived before the first response of a lookup and a third
\* after it; one GET was sent and all were given its list.
C25_Witness ==
  \E l \in Lookups :
    /\ cache[l].subscribers >= 3
    /\ cache[l].waiting = 0
    /\ cache[l].gets = 1
    /\ cache[l].results = {"v1"}

\* ------------------------------------------------------------ repeated GETs
\* A GET was made and no handler is between two of its statements: the GET
\* that follows has no create or update between it and the one before.
Recallable == Quiescent /\ read # NoRead

\* GET /api/students/:childId after another GET.
getStudentById_again ==
  /\ Recallable
  /\ \E childId \in ReadParams, ok \in BOOLEAN :
       LET rows == JoinRows(PoolView, { c \in PoolView.children : c.childid = childId })
           kind == "getStudentById"
       IN
       /\ PoolQuery(ok)
       /\ IF ~PoolAnswers(ok)
            THEN read' = Answer(kind, childId, 500, "database error",
                                "Failed to fetch student", <<>>)
          ELSE IF rows = {}
            THEN read' = Answer(kind, childId, 404, NULL, "Student not found", <<>>)
          ELSE \E row \in rows :
                 read' = Answer(kind, childId, 200, NULL,
                                "Student retrieved successfully", <<StudentOf(row)>>)
  /\ UNCHANGED <<db, seq, req, before, ui, app>>

\* GET /api/students after another GET.
getAllStudents_again ==
  /\ Recallable
  /\ \E ok \in BOOLEAN :
       LET rows == JoinRows(PoolView, PoolView.children)
           kind == "getAllStudents"
       IN
       /\ PoolQuery(ok)
       /\ IF ~PoolAnswers(ok)
            THEN read' = Answer(kind, NoId, 500, "database error",
                                "Failed to fetch students", <<>>)
          ELSE IF rows = {}
            THEN read' = Answer(kind, NoId, 200, NULL, "No students found", <<>>)
          ELSE \E result \in RowOrders(rows) :
                 LET students == GroupStudents(result, {}, <<>>) IN
                 read' = [Answer(kind, NoId, 200, NULL,
                                 "Successfully retrieved", students)
                            EXCEPT !.hasTotalCount = TRUE,
                                   !.totalCount = Len(students)]
  /\ UNCHANGED <<db, seq, req, before, ui, app>>

RereadNext ==
  \/ ReadWrite
  \/ getStudentById
  \/ getAllStudents
  \/ getStudentById_again
  \/ getAllStudents_again

\* Creates and updates one after the other, then GETs one after the other.
RereadSpec == ReadInit /\ [][RereadNext]_vars

\* The database answered the GET.
Answered(answer) == answer.kind # NULL /\ answer.status # 500

\* C22 -- as claimed: get-by-id and get-all perform no writes: a GET leaves
\* every table unchanged, and a get-by-id that follows a get-by-id for the same
\* child id with no create or update between them returns the same result.
C22_IdempotentReads ==
  [][ /\ (read' # read \/ read # NoRead) => db' = db /\ seq' = seq
      /\ ( /\ Answered(read) /\ Answered(read')
           /\ read.kind = "getStudentById" /\ read'.kind = "getStudentById"
           /\ read'.childId = read.childId )
         => read' = read ]_vars

====
